---- MODULE Spec2Model ----
(***************************************************************************)
(* Verification model of the dashboard's calculators and tools.            *)
(*                                                                         *)
(* Part I   PizzaCalculator (src/pages/tools/PizzaCalculator.tsx): the     *)
(*          component's state, its input handlers and its two effects.     *)
(* Part II  BrewMaster (src/components/ServiceCard.tsx): the recipe state,  *)
(*          its edit handlers and the math helpers its render calls.       *)
(* Part III BrewMaster's yeast sizing and keg balancing panels.            *)
(* Part IV  TapList (src/unnamed/part_000): the swatch colours, the tap    *)
(*          list, its local-storage entry and its remote load and save.    *)
(* Part V   GreetingWidget and generateDailyVibe (src/unnamed/part_003).   *)
(* Part VI  the BigCommerce colour script (src/unnamed/part_002).          *)
(* Part VII the UTM link generator and its history.                        *)
(* Part VIII the hash router (src/unnamed/part_003) and App's routes.      *)
(* Part IX  FleetLog (src/pages/tools/FleetLog.tsx).                       *)
(*                                                                         *)
(* Number conventions                                                      *)
(*   percentages   hundredths of a percent   (62 % = 6200)                 *)
(*   hours         whole hours (the range sliders step by 1)               *)
(*   instants      milliseconds relative to a reference instant            *)
(*   targetDate    minutes relative to the same instant (datetime-local    *)
(*                 has minute resolution), or the empty string             *)
(*   JS numbers    of BrewMaster are records: Fin(v) with v an integer in  *)
(*                 the unit noted at each field, or NaN, PosInf, NegInf.   *)
(*                 Quotients are truncated to the unit, so finite results  *)
(*                 are fixed-point approximations of the doubles.          *)
(***************************************************************************)
EXTENDS Integers, Sequences, FiniteSets, TLC

VARIABLES
    \* ---- PizzaCalculator component state (useState, lines 132-145)
    selectedStyleId, diameter, count, roomTempHours, coldFermentHours,
    targetDate, customMode, hydration, salt, oil, sugar, yeast,
    \* ---- React bookkeeping: dependency values of the last committed render
    rendered,
    \* ---- model bookkeeping: user events handled so far
    events,
    \* ---- BrewMaster component state: fields of `recipe` (ServiceCard.tsx line 314)
    grainBill, hopSchedule, batchSizeGal, efficiency, sourceWater, salts,
    \* ---- BrewMaster: recipe.yeast and recipe.kegConfig
    yeastProfile, kegConfig,
    \* ---- TapList component state (src/unnamed/part_000 lines 92-115): the storage
    \* part of `settings`, the tap list, the sync flags, the edit modal
    storage, taps, isSyncing, syncError, editingTapId, editForm,
    \* ---- the browser's localStorage entry 'taps' and the fetches awaiting an answer
    localTaps, inFlight,
    \* ---- React bookkeeping: the storage dependencies of the last run of the
    \* load effect
    tapRendered,
    \* ---- TapList: the brewfather part of `settings`, and the localStorage entries
    \* 'taplist_settings' and 'bf_settings'
    brewfather, savedSettings, oldBf,
    \* ---- geminiService (src/unnamed/part_003 lines 3-11): whether the client exists
    ai,
    \* ---- GreetingWidget component state (GreetingWidget.tsx lines 7-8)
    message, dateStr,
    \* ---- where the widget's fetchVibe stands, what the AI service answered and
    \* what generateDailyVibe settled with
    vibePc, vibeAnswer, vibeResult,
    \* ---- BigCommerceColorTool component state (src/unnamed/part_002 lines 88-99):
    \* whether store hash and access token are filled in, the textarea's lines
    creds, colorInput, isRunning,
    \* ---- where runScript stands: its colorsToCreate and existingLabels, the loop
    \* position, the answer to the call it awaits, the labels it has POSTed
    bcPc, colorsToCreate, existingLabels, colorIdx, bcResponse, issued,
    \* ---- UTMGenerator component state (PizzaCalculator.tsx lines 557-563), the
    \* 'utm_history' entry of localStorage, the clipboard, the clock and what the
    \* last commit's effects saw
    params, generatedUrl, copied, history, utm_history, clipboard, now,
    utmRendered,
    \* ---- the hash router (src/unnamed/part_003 lines 49-77): window.location.hash,
    \* HashRouter's path, whether a hashchange event is queued, the children of
    \* <Routes> and what the last commit rendered
    hash, path, hashchangePending, routes, routeRendered,
    \* ---- FleetLog component state (FleetLog.tsx lines 226-242) and the day it is
    \* looked at
    assets, logs, rules, showLogModal, showUsageModal, today

pizzaVars == <<selectedStyleId, diameter, count, roomTempHours, coldFermentHours,
               targetDate, customMode, hydration, salt, oil, sugar, yeast, rendered>>

brewVars == <<grainBill, hopSchedule, batchSizeGal, efficiency, sourceWater, salts>>

cellarVars == <<yeastProfile, kegConfig>>

tapVars == <<storage, taps, isSyncing, syncError, editingTapId, editForm, localTaps,
             inFlight, tapRendered>>

greetVars == <<ai, message, dateStr, vibePc, vibeAnswer, vibeResult>>

scriptVars == <<creds, colorInput, isRunning, bcPc, colorsToCreate, existingLabels,
                colorIdx, bcResponse, issued>>

utmVars == <<params, generatedUrl, copied, history, utm_history, clipboard, now, utmRendered>>

routeVars == <<hash, path, hashchangePending, routes, routeRendered>>

fleetVars == <<assets, logs, rules, showLogModal, showUsageModal, today>>

pageVars == <<utmVars, routeVars, fleetVars>>

shellVars == <<greetVars, scriptVars, pageVars>>

settingsVars == <<brewfather, savedSettings, oldBf>>

restVars == <<cellarVars, tapVars, settingsVars, shellVars>>

vars == <<pizzaVars, events, brewVars, restVars>>

--------------------------------------------------------------------------
(* Bounds of the model *)

\* how many single steps above its minimum a range slider is moved to
\* (the slider's maximum is always among the inputs)
MaxSliderSteps == 1
\* how many single steps above its minimum a percentage slider is moved to
MaxPctSteps == 0
\* how many user events one behaviour of the whole component holds
MaxEvents == 4
\* how many fermentables and hop additions the lists grow to
MaxGrains == 2
MaxHops == 2
\* how many fetches of the tap list may await their answer at once
MaxInFlight == 2
\* how many lines the colour textarea holds
MaxLines == 2
\* how many entries one behaviour adds to the UTM history
MaxNow == 52
\* .slice(0, 50) in handleCopy (PizzaCalculator.tsx line 617)
HistoryLimit == 50

--------------------------------------------------------------------------
(* Generic helpers *)

Max(a, b) == IF a > b THEN a ELSE b
Min(a, b) == IF a < b THEN a ELSE b

\* Math.round(n/d) for d > 0: floor(n/d + 1/2), ties go up
MathRound(n, d) == (2 * n + d) \div (2 * d)

--------------------------------------------------------------------------
(* Part I: PizzaCalculator *)

StyleIds == {"thin", "ny_street", "medium", "neapolitan", "detroit"}

\* tf in thousandths of oz/in^2, hydration in whole percent,
\* salt/oil/sugar/yeast defaults in hundredths of a percent, hours in hours
STYLES == [id \in StyleIds |->
    CASE id = "thin" ->
           [tf |-> 70, hydration |-> [min |-> 50, max |-> 60, default |-> 56],
            salt |-> 200, oil |-> 200, sugar |-> 100, yeast |-> 40,
            fermentation |-> [roomMin |-> 2, roomMax |-> 24, roomDefault |-> 4,
                              coldMin |-> 0, coldMax |-> 48, coldDefault |-> 24,
                              ballingTime |-> 2]]
      [] id = "ny_street" ->
           [tf |-> 85, hydration |-> [min |-> 58, max |-> 65, default |-> 62],
            salt |-> 250, oil |-> 150, sugar |-> 200, yeast |-> 50,
            fermentation |-> [roomMin |-> 2, roomMax |-> 6, roomDefault |-> 3,
                              coldMin |-> 24, coldMax |-> 72, coldDefault |-> 48,
                              ballingTime |-> 4]]
      [] id = "medium" ->
           [tf |-> 100, hydration |-> [min |-> 60, max |-> 65, default |-> 62],
            salt |-> 200, oil |-> 300, sugar |-> 200, yeast |-> 50,
            fermentation |-> [roomMin |-> 2, roomMax |-> 8, roomDefault |-> 3,
                              coldMin |-> 0, coldMax |-> 48, coldDefault |-> 24,
                              ballingTime |-> 2]]
      [] id = "neapolitan" ->
           [tf |-> 75, hydration |-> [min |-> 60, max |-> 75, default |-> 65],
            salt |-> 300, oil |-> 0, sugar |-> 0, yeast |-> 20,
            fermentation |-> [roomMin |-> 8, roomMax |-> 24, roomDefault |-> 12,
                              coldMin |-> 0, coldMax |-> 72, coldDefault |-> 24,
                              ballingTime |-> 6]]
      [] id = "detroit" ->
           [tf |-> 130, hydration |-> [min |-> 65, max |-> 75, default |-> 70],
            salt |-> 250, oil |-> 100, sugar |-> 100, yeast |-> 60,
            fermentation |-> [roomMin |-> 2, roomMax |-> 6, roomDefault |-> 4,
                              coldMin |-> 12, coldMax |-> 48, coldDefault |-> 24,
                              ballingTime |-> 0]]]

\* the empty string of the datetime-local input (new Date('') is an Invalid Date)
EmptyDate == [empty |-> TRUE, minutes |-> 0]
DateString(m) == [empty |-> FALSE, minutes |-> m]

\* the mount effect's default (the reference instant), and what the user can type
DefaultTargetDate == DateString(0)
TargetDates == {DateString(0), DateString(7 * 24 * 60)}

\* Effect "Auto-Adjust Hydration", lines 175-192, computed in 24ths of a percent
\* (every term is a multiple of 1/24 %, so the arithmetic is exact)
AutoHydrationNoClamp(styleId, room, cold) ==
    LET style == STYLES[styleId]
        base     == style.hydration.default * 24
        coldDiff == Max(0, cold - style.fermentation.coldMin)
        withCold == base + ((coldDiff * 24) \div 12) \div 2
        roomDiff == Max(0, room - style.fermentation.roomMin)
        withRoom == withCold + (roomDiff * 24) \div 4
    IN  MathRound(withRoom * 10, 24) * 10

AutoHydration(styleId, room, cold) ==
    LET style == STYLES[styleId]
        base     == style.hydration.default * 24
        coldDiff == Max(0, cold - style.fermentation.coldMin)
        withCold == base + ((coldDiff * 24) \div 12) \div 2
        roomDiff == Max(0, room - style.fermentation.roomMin)
        withRoom == withCold + (roomDiff * 24) \div 4
        clamped  == Min(style.hydration.max * 24,
                        Max(style.hydration.min * 24, withRoom))
    IN  MathRound(clamped * 10, 24) * 10

\* dependency values a render hands to the effects
Deps == [mounted |-> TRUE, selectedStyleId |-> selectedStyleId,
         customMode |-> customMode, roomTempHours |-> roomTempHours,
         coldFermentHours |-> coldFermentHours]

Unmounted == [mounted |-> FALSE, selectedStyleId |-> "ny_street",
              customMode |-> FALSE, roomTempHours |-> 3, coldFermentHours |-> 48]

\* a render is pending while the state differs from what was last committed
Settled == rendered = Deps

\* dependency lists of the two effects (lines 170 and 194)
StyleEffectDeps(d) == <<d.selectedStyleId, d.customMode>>

HydrationEffectDepsNoCold(d) ==
    <<d.roomTempHours, d.selectedStyleId, d.customMode>>

HydrationEffectDeps(d) ==
    <<d.roomTempHours, d.coldFermentHours, d.selectedStyleId, d.customMode>>

\* an effect runs after the first render and after a render that changed a dependency
EffectRuns(before, after) == ~rendered.mounted \/ before # after

\* guards inside the effect bodies
StyleDefaultsWrites == ~customMode

AutoAdjustWritesAlways == TRUE

AutoAdjustWrites == ~customMode

\* range-slider inputs offered for the rendered style (lines 341-362)
SliderInputs(lo, hi) == {v \in lo..hi : v - lo <= MaxSliderSteps \/ v = hi}
RoomInputs == LET f == STYLES[selectedStyleId].fermentation
              IN  SliderInputs(f.roomMin, f.roomMax)
ColdInputs == LET f == STYLES[selectedStyleId].fermentation
              IN  SliderInputs(f.coldMin, f.coldMax)
RoomRange == LET f == STYLES[selectedStyleId].fermentation IN f.roomMin..f.roomMax
ColdRange == LET f == STYLES[selectedStyleId].fermentation IN f.coldMin..f.coldMax

\* InputPercent sliders (lines 382-386): min, max, step in hundredths of a percent
PctInputs(lo, hi, step) ==
    {v \in lo..hi : (v - lo) % step = 0 /\ ((v - lo) \div step <= MaxPctSteps \/ v = hi)}

Diameters == {12, 16}
Counts == {1, 2}

\* Timeline, lines 221-224.  A Date is its time value in ms, or invalid (NaN)
MsPerHour == 60 * 60 * 1000
InvalidDate == [valid |-> FALSE, time |-> 0]

\* new Date(targetDate): the local minute the string names, in ms
NewDate(str) == IF str.empty THEN InvalidDate
                ELSE [valid |-> TRUE, time |-> str.minutes * 60 * 1000]

\* the subtraction with one factor of 60 dropped (h taken as minutes)
HoursBeforeAsMinutes(d, h) ==
    IF d.valid THEN [valid |-> TRUE, time |-> d.time - h * 60 * 1000]
    ELSE InvalidDate

\* new Date(d.getTime() - h * 60 * 60 * 1000)
HoursBefore(d, h) == IF d.valid THEN [valid |-> TRUE, time |-> d.time - h * MsPerHour]
                     ELSE InvalidDate

bakeDate == NewDate(targetDate)
ballDate == HoursBefore(bakeDate, STYLES[selectedStyleId].fermentation.ballingTime)
coldStartDate == HoursBefore(ballDate, coldFermentHours)

startMixDateFromBall == HoursBefore(ballDate, roomTempHours)

startMixDate == HoursBefore(coldStartDate, roomTempHours)

\* ---- Dough weight and baker's math (lines 197-218)
\* Math.PI * Math.pow(diameter / 2, 2), in 1/1000 in^2
area == (31416 * diameter * diameter) \div 40

\* area * style.tf, in 1/1000000 oz
singleDoughWeightOz == area * STYLES[selectedStyleId].tf

\* singleDoughWeightOz * 28.3495, in mg
singleDoughWeightG == ((singleDoughWeightOz \div 10000) * 283495) \div 1000

totalDoughWeightG == singleDoughWeightG * count

\* 100 + hydration + salt + oil + sugar + yeast, in hundredths of a percent
totalPercent == 10000 + hydration + salt + oil + sugar + yeast

\* flour taken as the whole gram that is displayed
flourGRounded == MathRound((totalDoughWeightG * 1000) \div totalPercent, 100) * 100

\* totalDoughWeightG / (totalPercent / 100), in 1/100 g
flourG == (totalDoughWeightG * 1000) \div totalPercent

\* whole grams, yeast in tenths of a gram
ingredients ==
    [flour |-> MathRound(flourG, 100),
     water |-> MathRound(flourG * hydration, 1000000),
     salt  |-> MathRound(flourG * salt, 1000000),
     oil   |-> MathRound(flourG * oil, 1000000),
     sugar |-> MathRound(flourG * sugar, 1000000),
     yeast |-> MathRound(flourG * yeast, 100000)]

PizzaInit ==
    /\ selectedStyleId = "ny_street"
    /\ diameter = 16
    /\ count = 2
    /\ roomTempHours = 3
    /\ coldFermentHours = 48
    /\ targetDate = EmptyDate
    /\ customMode = FALSE
    /\ hydration = 6200
    /\ salt = 250
    /\ oil = 150
    /\ sugar = 200
    /\ yeast = 50
    /\ rendered = Unmounted

\* One commit: the effects whose dependencies changed run in source order against
\* the values of this render, and their state updates are applied together.
Commit ==
    /\ ~Settled
    /\ LET style  == STYLES[selectedStyleId]
           reset  == /\ EffectRuns(StyleEffectDeps(rendered), StyleEffectDeps(Deps))
                     /\ StyleDefaultsWrites
           adjust == /\ EffectRuns(HydrationEffectDeps(rendered), HydrationEffectDeps(Deps))
                     /\ AutoAdjustWrites
       IN  /\ hydration' = IF adjust
                             THEN AutoHydration(selectedStyleId, roomTempHours,
                                                coldFermentHours)
                             ELSE IF reset THEN style.hydration.default * 100
                                           ELSE hydration
           /\ salt'  = IF reset THEN style.salt ELSE salt
           /\ oil'   = IF reset THEN style.oil ELSE oil
           /\ sugar' = IF reset THEN style.sugar ELSE sugar
           /\ yeast' = IF reset THEN style.yeast ELSE yeast
           /\ roomTempHours' = IF reset THEN style.fermentation.roomDefault
                                        ELSE roomTempHours
           /\ coldFermentHours' = IF reset THEN style.fermentation.coldDefault
                                           ELSE coldFermentHours
    /\ targetDate' = IF rendered.mounted THEN targetDate ELSE DefaultTargetDate
    /\ rendered' = Deps
    /\ UNCHANGED <<selectedStyleId, diameter, count, customMode>>

SelectStyle(id) ==
    /\ Settled
    /\ id # selectedStyleId
    /\ selectedStyleId' = id
    /\ UNCHANGED <<diameter, count, roomTempHours, coldFermentHours, targetDate,
                   customMode, hydration, salt, oil, sugar, yeast, rendered>>

SetDiameter(v) ==
    /\ Settled
    /\ diameter' = v
    /\ UNCHANGED <<selectedStyleId, count, roomTempHours, coldFermentHours, targetDate,
                   customMode, hydration, salt, oil, sugar, yeast, rendered>>

SetCount(v) ==
    /\ Settled
    /\ count' = v
    /\ UNCHANGED <<selectedStyleId, diameter, roomTempHours, coldFermentHours,
                   targetDate, customMode, hydration, salt, oil, sugar, yeast, rendered>>

SetTargetDate(d) ==
    /\ Settled
    /\ targetDate' = d
    /\ UNCHANGED <<selectedStyleId, diameter, count, roomTempHours, coldFermentHours,
                   customMode, hydration, salt, oil, sugar, yeast, rendered>>

SetRoomTempHours(v) ==
    /\ Settled
    /\ roomTempHours' = v
    /\ UNCHANGED <<selectedStyleId, diameter, count, coldFermentHours, targetDate,
                   customMode, hydration, salt, oil, sugar, yeast, rendered>>

SetColdFermentHours(v) ==
    /\ Settled
    /\ coldFermentHours' = v
    /\ UNCHANGED <<selectedStyleId, diameter, count, roomTempHours, targetDate,
                   customMode, hydration, salt, oil, sugar, yeast, rendered>>

ToggleCustomMode ==
    /\ Settled
    /\ customMode' = ~customMode
    /\ UNCHANGED <<selectedStyleId, diameter, count, roomTempHours, coldFermentHours,
                   targetDate, hydration, salt, oil, sugar, yeast, rendered>>

\* the five InputPercent sliders are disabled unless customMode
SetHydration(v) ==
    /\ Settled /\ customMode
    /\ hydration' = v
    /\ UNCHANGED <<selectedStyleId, diameter, count, roomTempHours, coldFermentHours,
                   targetDate, customMode, salt, oil, sugar, yeast, rendered>>

SetSalt(v) ==
    /\ Settled /\ customMode
    /\ salt' = v
    /\ UNCHANGED <<selectedStyleId, diameter, count, roomTempHours, coldFermentHours,
                   targetDate, customMode, hydration, oil, sugar, yeast, rendered>>

SetOil(v) ==
    /\ Settled /\ customMode
    /\ oil' = v
    /\ UNCHANGED <<selectedStyleId, diameter, count, roomTempHours, coldFermentHours,
                   targetDate, customMode, hydration, salt, sugar, yeast, rendered>>

SetSugar(v) ==
    /\ Settled /\ customMode
    /\ sugar' = v
    /\ UNCHANGED <<selectedStyleId, diameter, count, roomTempHours, coldFermentHours,
                   targetDate, customMode, hydration, salt, oil, yeast, rendered>>

SetYeast(v) ==
    /\ Settled /\ customMode
    /\ yeast' = v
    /\ UNCHANGED <<selectedStyleId, diameter, count, roomTempHours, coldFermentHours,
                   targetDate, customMode, hydration, salt, oil, sugar, rendered>>

--------------------------------------------------------------------------
(* Part II: BrewMaster *)

\* ---- JavaScript numbers
Fin(v) == [k |-> "fin", v |-> v]
NaN == [k |-> "nan", v |-> 0]
PosInf == [k |-> "inf", v |-> 1]
NegInf == [k |-> "inf", v |-> -1]
\* an optional field that was never set
Undefined == [k |-> "undef", v |-> 0]

Abs(a) == IF a < 0 THEN -a ELSE a
Sgn(a) == IF a < 0 THEN -1 ELSE IF a > 0 THEN 1 ELSE 0
\* integer quotient rounded toward zero
TruncDiv(a, b) == Sgn(a) * Sgn(b) * (Abs(a) \div Abs(b))

\* x > 0 and x <= 0 as JavaScript compares them (false for NaN)
Gt0(x) == x.k # "nan" /\ x.v > 0
Le0(x) == x.k # "nan" /\ x.v <= 0

\* x + y
NumAdd(x, y) ==
    IF x.k = "nan" \/ y.k = "nan" THEN NaN
    ELSE IF x.k = "inf" /\ y.k = "inf" THEN (IF x.v = y.v THEN x ELSE NaN)
    ELSE IF x.k = "inf" THEN x
    ELSE IF y.k = "inf" THEN y
    ELSE Fin(x.v + y.v)

\* x / y, the quotient expressed in units of 1/mul of (unit of x)/(unit of y)
NumDiv(x, mul, y) ==
    IF x.k = "nan" \/ y.k = "nan" THEN NaN
    ELSE IF x.k = "inf" /\ y.k = "inf" THEN NaN
    ELSE IF x.k = "inf" THEN (IF x.v * (IF y.v < 0 THEN -1 ELSE 1) > 0 THEN PosInf ELSE NegInf)
    ELSE IF y.k = "inf" THEN Fin(0)
    ELSE IF y.v = 0 THEN (IF x.v > 0 THEN PosInf ELSE IF x.v < 0 THEN NegInf ELSE NaN)
    ELSE Fin(TruncDiv(x.v * mul, y.v))

\* x * n / d for integers n, d > 0
NumScale(x, n, d) == IF x.k = "fin" THEN Fin(TruncDiv(x.v * n, d)) ELSE x

\* piecewise-linear reading of a table of <<x, y>> points with increasing x;
\* beyond the last point the last value is kept
RECURSIVE Interp(_, _, _)
Interp(table, i, x) ==
    IF i = Len(table) THEN table[i][2]
    ELSE IF x <= table[i + 1][1]
         THEN table[i][2] + ((table[i + 1][2] - table[i][2]) * (x - table[i][1]))
                               \div (table[i + 1][1] - table[i][1])
         ELSE Interp(table, i + 1, x)

\* ---- Defaults (lines 180-211)
\* volumes in 1/10000 gal, rates in 1/1000 gal/lb and 1/10000 gal/hr
DEFAULT_EQUIPMENT ==
    [batchSizeGal |-> 55000, brewhouseEfficiency |-> 72,
     grainAbsorptionGalPerLb |-> 125, boilOffRateGalPerHr |-> 10000,
     trubLossGal |-> 5000, mashTunDeadspaceGal |-> 0]

\* useState<number>(60), line 316
boilTime == 60

\* weightLb in 1/1000 lb, ppg in points, lovibond in tenths
Grain(id, w, ppg, lov) == [id |-> id, weightLb |-> w, ppg |-> ppg, lovibond |-> lov]

\* weightOz in 1/100 oz, alphaAcid in tenths of a percent, timeMin in minutes,
\* whirlpoolTempF in degrees or Undefined
Hop(id, w, aa, t, type, temp) ==
    [id |-> id, weightOz |-> w, alphaAcid |-> aa, timeMin |-> t, type |-> type,
     whirlpoolTempF |-> temp]

Ions == {"ca", "mg", "na", "cl", "so4", "hco3"}
SaltNames == {"gypsum", "cacl2", "epsom", "salt", "bakingSoda", "chalk"}

\* DEFAULT_RECIPE: batch in 1/10000 gal, efficiency in percent, ions in tenths of
\* a ppm, salts in grams
BrewInit ==
    /\ grainBill = <<Grain(1, 10000, 37, 18), Grain(2, 500, 34, 400)>>
    /\ hopSchedule = <<Hop(1, 100, 120, 60, "boil", Undefined),
                       Hop(2, 200, 115, 0, "whirlpool", Fin(170))>>
    /\ batchSizeGal = Fin(55000)
    /\ efficiency = Fin(72)
    /\ sourceWater = [ca |-> Fin(50), mg |-> Fin(20), na |-> Fin(80),
                      cl |-> Fin(100), so4 |-> Fin(100), hco3 |-> Fin(150)]
    /\ salts = [n \in SaltNames |-> 0]

\* ---- Math helpers (lines 215-279)

RECURSIVE SumPoints(_, _)
\* grains.reduce(acc + weightLb * ppg), in 1/100 point
SumPoints(grains, i) ==
    IF i > Len(grains) THEN 0
    ELSE (grains[i].weightLb * grains[i].ppg) \div 10 + SumPoints(grains, i + 1)

\* calculateGravity with the volume guard left out
calculateGravityUnguarded(grains, eff, volume) ==
    LET totalPoints     == SumPoints(grains, 1)
        potentialPoints == NumScale(IF eff.k = "fin" THEN Fin(totalPoints * eff.v) ELSE eff,
                                    1, 100)
        pointsPerGal    == NumDiv(potentialPoints, 10000, volume)
        og              == NumAdd(Fin(100000), pointsPerGal)
    IN  [og |-> og, points |-> pointsPerGal]

\* points in 1/100 point per gallon, og in 1/100000
calculateGravity(grains, eff, volume) ==
    LET totalPoints     == SumPoints(grains, 1)
        potentialPoints == NumScale(IF eff.k = "fin" THEN Fin(totalPoints * eff.v) ELSE eff,
                                    1, 100)
        pointsPerGal    == IF Gt0(volume) THEN NumDiv(potentialPoints, 10000, volume)
                           ELSE Fin(0)
        og              == NumAdd(Fin(100000), pointsPerGal)
    IN  [og |-> og, points |-> pointsPerGal]

\* 1.65 * Math.pow(0.000125, og - 1) in 1/10000, read off at every 10 gravity points
BignessTable ==
    <<<<0, 16500>>, <<1000, 15082>>, <<2000, 13785>>, <<3000, 12601>>, <<4000, 11518>>,
      <<5000, 10528>>, <<6000, 9623>>, <<7000, 8796>>, <<8000, 8040>>, <<9000, 7349>>,
      <<10000, 6717>>, <<11000, 6140>>, <<12000, 5612>>, <<13000, 5130>>,
      <<14000, 4689>>, <<15000, 4286>>, <<16000, 3917>>, <<17000, 3581>>,
      <<18000, 3273>>, <<19000, 2992>>, <<20000, 2734>>>>

\* (1 - Math.exp(-0.04 * t)) / 4.15 in 1/100000, read off at every 5 minutes
BoilTimeTable ==
    <<<<0, 0>>, <<5, 4368>>, <<10, 7944>>, <<15, 10872>>, <<20, 13269>>, <<25, 15232>>,
      <<30, 16839>>, <<35, 18154>>, <<40, 19231>>, <<45, 20113>>, <<50, 20835>>,
      <<55, 21426>>, <<60, 21910>>, <<65, 22307>>, <<70, 22631>>, <<75, 22897>>,
      <<80, 23114>>, <<85, 23292>>, <<90, 23438>>, <<95, 23557>>, <<100, 23655>>,
      <<105, 23735>>, <<110, 23801>>, <<115, 23854>>, <<120, 23898>>>>

bignessFactor(og) == Interp(BignessTable, 1, og - 100000)
boilTimeFactor(t) == Interp(BoilTimeTable, 1, t)

\* hop.whirlpoolTempF || 200: undefined, NaN and 0 all fall back
WhirlpoolTemp(hop) ==
    IF hop.whirlpoolTempF.k = "fin" /\ hop.whirlpoolTempF.v # 0
      THEN hop.whirlpoolTempF.v ELSE 200

\* the thresholds taken inclusively
tempFactorInclusive(temp) == IF temp >= 180 THEN 50 ELSE IF temp >= 160 THEN 20 ELSE 5

\* temp > 180 ? 0.5 : temp > 160 ? 0.2 : 0.05, in hundredths
tempFactor(temp) == IF temp > 180 THEN 50 ELSE IF temp > 160 THEN 20 ELSE 5

\* the whirlpool branch reading the addition's own timeMin
utilizationByOwnTime(hop, og) ==
    IF hop.type = "whirlpool"
      THEN (((bignessFactor(og) * boilTimeFactor(hop.timeMin)) \div 10000)
               * tempFactor(WhirlpoolTemp(hop))) \div 100
      ELSE (bignessFactor(og) * boilTimeFactor(hop.timeMin)) \div 10000

\* utilization of one addition in 1/100000 (og finite)
utilization(hop, og) ==
    IF hop.type = "whirlpool"
      THEN (((bignessFactor(og) * boilTimeFactor(20)) \div 10000)
               * tempFactor(WhirlpoolTemp(hop))) \div 100
      ELSE (bignessFactor(og) * boilTimeFactor(hop.timeMin)) \div 10000

\* the body of the forEach for an addition that is not skipped: its ibu in 1/100
HopIBU(hop, og, volume) ==
    IF og.k # "fin" THEN NaN
    ELSE LET alphaAcidUnits == hop.alphaAcid * hop.weightOz
             scaled == (((alphaAcidUnits * utilization(hop, og.v)) \div 100000) * 749)
                          \div 100
         IN  NumDiv(Fin(scaled), 10000, volume)

RECURSIVE IBULoopCountingDry(_, _, _, _, _)
\* the loop with the dry-hop skip left out
IBULoopCountingDry(hops, og, volume, i, totalIBU) ==
    IF i > Len(hops) THEN totalIBU
    ELSE IBULoopCountingDry(hops, og, volume, i + 1,
                            NumAdd(totalIBU, HopIBU(hops[i], og, volume)))

RECURSIVE IBULoop(_, _, _, _, _)
\* hops.forEach from index i on, totalIBU the running sum
IBULoop(hops, og, volume, i, totalIBU) ==
    IF i > Len(hops) THEN totalIBU
    ELSE IF hops[i].type = "dry" THEN IBULoop(hops, og, volume, i + 1, totalIBU)
    ELSE IBULoop(hops, og, volume, i + 1, NumAdd(totalIBU, HopIBU(hops[i], og, volume)))

\* total in 1/100 IBU
calculateIBU(hops, og, volume) == IBULoop(hops, og, volume, 1, Fin(0))

RECURSIVE SumColor(_, _)
\* grains.reduce(acc + weightLb * lovibond), in 1/1000
SumColor(grains, i) ==
    IF i > Len(grains) THEN 0
    ELSE (grains[i].weightLb * grains[i].lovibond) \div 10 + SumColor(grains, i + 1)

\* 1.4922 * mcu^0.6859 in 1/100 SRM for mcu > 0 in 1/1000 (Morey), read off a table
MoreyTable ==
    <<<<0, 0>>, <<1000, 149>>, <<2000, 240>>, <<3000, 317>>, <<4000, 386>>,
      <<5000, 450>>, <<6000, 510>>, <<8000, 621>>, <<10000, 724>>, <<15000, 956>>,
      <<20000, 1165>>, <<30000, 1538>>, <<40000, 1874>>, <<60000, 2474>>,
      <<80000, 3014>>, <<120000, 3980>>, <<160000, 4849>>, <<200000, 5651>>>>

\* 1.4922 * Math.pow(mcu, 0.6859): NaN for NaN and for a negative base, Infinity for
\* either infinity, 0 for either zero
Morey(mcu) ==
    IF mcu.k = "nan" THEN NaN
    ELSE IF mcu.k = "inf" THEN PosInf
    ELSE IF mcu.v < 0 THEN NaN
    ELSE Fin(Interp(MoreyTable, 1, mcu.v))

calculateSRM(grains, volume) ==
    Morey(NumDiv(Fin(SumColor(grains, 1)), 10000, volume))

\* ppm added by 1 gram of a salt in 1 gallon (lines 272-277)
SaltEffect(ion) ==
    CASE ion = "ca"   -> [n \in SaltNames |-> CASE n = "gypsum" -> 60 [] n = "cacl2" -> 72
                                                [] n = "chalk" -> 105 [] OTHER -> 0]
      [] ion = "mg"   -> [n \in SaltNames |-> IF n = "epsom" THEN 24 ELSE 0]
      [] ion = "na"   -> [n \in SaltNames |-> CASE n = "salt" -> 104
                                                [] n = "bakingSoda" -> 72 [] OTHER -> 0]
      [] ion = "cl"   -> [n \in SaltNames |-> CASE n = "cacl2" -> 128 [] n = "salt" -> 160
                                                [] OTHER -> 0]
      [] ion = "so4"  -> [n \in SaltNames |-> CASE n = "gypsum" -> 147 [] n = "epsom" -> 98
                                                [] OTHER -> 0]
      [] ion = "hco3" -> [n \in SaltNames |-> CASE n = "bakingSoda" -> 184
                                                [] n = "chalk" -> 158 [] OTHER -> 0]

\* the salts that appear in an ion's sum, in source order
SaltsOf(ion) ==
    CASE ion = "ca"   -> <<"gypsum", "cacl2", "chalk">>
      [] ion = "mg"   -> <<"epsom">>
      [] ion = "na"   -> <<"salt", "bakingSoda">>
      [] ion = "cl"   -> <<"cacl2", "salt">>
      [] ion = "so4"  -> <<"gypsum", "epsom">>
      [] ion = "hco3" -> <<"bakingSoda", "chalk">>

\* the quotient with one gram too many in every product
ppmOffByOne(val, grams, totalWaterGal) ==
    NumDiv(Fin(val * (grams + 1)), 100000, totalWaterGal)

\* ppm(val, grams) = (val * grams) / totalWaterGal, in tenths of a ppm
ppm(val, grams, totalWaterGal) == NumDiv(Fin(val * grams), 100000, totalWaterGal)

RECURSIVE IonSum(_, _, _, _, _)
IonSum(acc, ion, i, s, totalWaterGal) ==
    IF i > Len(SaltsOf(ion)) THEN acc
    ELSE IonSum(NumAdd(acc, ppm(SaltEffect(ion)[SaltsOf(ion)[i]], s[SaltsOf(ion)[i]],
                                totalWaterGal)),
                ion, i + 1, s, totalWaterGal)

\* calculateWaterChemistry with the volume guard left out
calculateWaterChemistryUnguarded(source, s, totalWaterGal) ==
    [ion \in Ions |-> IonSum(source[ion], ion, 1, s, totalWaterGal)]

calculateWaterChemistry(source, s, totalWaterGal) ==
    IF Le0(totalWaterGal) THEN source
    ELSE [ion \in Ions |-> IonSum(source[ion], ion, 1, s, totalWaterGal)]

\* ---- What a render of BrewMaster derives (lines 319-335)
gravity == calculateGravity(grainBill, efficiency, batchSizeGal)
og == gravity.og
points == gravity.points
ibu == calculateIBU(hopSchedule, og, batchSizeGal)
srm == calculateSRM(grainBill, batchSizeGal)

RECURSIVE SumWeight(_, _)
SumWeight(grains, i) ==
    IF i > Len(grains) THEN 0 ELSE grains[i].weightLb + SumWeight(grains, i + 1)

totalGrainWeight == SumWeight(grainBill, 1)
absorption == (totalGrainWeight * DEFAULT_EQUIPMENT.grainAbsorptionGalPerLb) \div 100
boilOff == (DEFAULT_EQUIPMENT.boilOffRateGalPerHr * boilTime) \div 60
preBoilVol == NumAdd(batchSizeGal, Fin(boilOff + DEFAULT_EQUIPMENT.trubLossGal))
\* totalGrainWeight * (1.25 / 4), truncated to 1/10000 gal
mashVol == (totalGrainWeight * 3125) \div 1000
spargeVol == NumAdd(preBoilVol,
                    Fin(absorption + DEFAULT_EQUIPMENT.mashTunDeadspaceGal - mashVol))
totalWater == NumAdd(Fin(mashVol), spargeVol)
waterProfile == calculateWaterChemistry(sourceWater, salts, totalWater)

\* ---- Handlers
\* parseFloat(e.target.value) of the batch-size and efficiency fields: NaN when empty
BatchInputs == {NaN, Fin(-50000), Fin(-28125), Fin(0), Fin(50000)}
\* the batch sizes tried beside the hop editors: negative, zero, positive
HopBatchInputs == {Fin(-50000), Fin(0), Fin(50000)}
EfficiencyInputs == {NaN, Fin(80)}
\* NumberInput hands on parseFloat(...) || 0, always finite
WeightLbInputs == {0, 7500}
WeightOzInputs == {200}
AlphaAcidInputs == {100}
TimeMinInputs == {20}
HopTypes == {"boil", "whirlpool", "dry"}
SaltGramInputs == {5}
SourceIonInputs == {NaN}

Ids(list) == {list[i].id : i \in 1..Len(list)}
\* Date.now().toString() of the click: only its difference from the ids already in
\* the list is kept
FreshId(list) == CHOOSE n \in 1..(Len(list) + 1) : n \notin Ids(list)

SetBatchSize(v) ==
    /\ batchSizeGal' = v
    /\ UNCHANGED <<grainBill, hopSchedule, efficiency, sourceWater, salts>>

SetEfficiency(v) ==
    /\ efficiency' = v
    /\ UNCHANGED <<grainBill, hopSchedule, batchSizeGal, sourceWater, salts>>

updateGrain(id, field, value) ==
    /\ id \in Ids(grainBill)
    /\ grainBill' = [i \in 1..Len(grainBill) |->
                        IF grainBill[i].id = id
                          THEN [grainBill[i] EXCEPT ![field] = value]
                          ELSE grainBill[i]]
    /\ UNCHANGED <<hopSchedule, batchSizeGal, efficiency, sourceWater, salts>>

addGrain ==
    /\ Len(grainBill) < MaxGrains
    /\ grainBill' = Append(grainBill, Grain(FreshId(grainBill), 0, 35, 20))
    /\ UNCHANGED <<hopSchedule, batchSizeGal, efficiency, sourceWater, salts>>

removeGrain(id) ==
    /\ id \in Ids(grainBill)
    /\ grainBill' = SelectSeq(grainBill, LAMBDA g : g.id # id)
    /\ UNCHANGED <<hopSchedule, batchSizeGal, efficiency, sourceWater, salts>>

updateHop(id, field, value) ==
    /\ id \in Ids(hopSchedule)
    /\ hopSchedule' = [i \in 1..Len(hopSchedule) |->
                          IF hopSchedule[i].id = id
                            THEN [hopSchedule[i] EXCEPT ![field] = value]
                            ELSE hopSchedule[i]]
    /\ UNCHANGED <<grainBill, batchSizeGal, efficiency, sourceWater, salts>>

addHop ==
    /\ Len(hopSchedule) < MaxHops
    /\ hopSchedule' = Append(hopSchedule,
                             Hop(FreshId(hopSchedule), 100, 100, 60, "boil", Undefined))
    /\ UNCHANGED <<grainBill, batchSizeGal, efficiency, sourceWater, salts>>

removeHop(id) ==
    /\ id \in Ids(hopSchedule)
    /\ hopSchedule' = SelectSeq(hopSchedule, LAMBDA h : h.id # id)
    /\ UNCHANGED <<grainBill, batchSizeGal, efficiency, sourceWater, salts>>

SetSourceIon(ion, v) ==
    /\ sourceWater' = [sourceWater EXCEPT ![ion] = v]
    /\ UNCHANGED <<grainBill, hopSchedule, batchSizeGal, efficiency, salts>>

SetSaltAddition(n, v) ==
    /\ salts' = [salts EXCEPT ![n] = v]
    /\ UNCHANGED <<grainBill, hopSchedule, batchSizeGal, efficiency, sourceWater>>

BrewStep == UNCHANGED <<pizzaVars, events, restVars>>

\* The grain bill, batch size and efficiency edited
GrainNext ==
    \/ BrewStep /\ \E v \in BatchInputs : SetBatchSize(v)
    \/ BrewStep /\ \E v \in EfficiencyInputs : SetEfficiency(v)
    \/ BrewStep /\ \E id \in Ids(grainBill), v \in WeightLbInputs :
                        updateGrain(id, "weightLb", v)
    \/ BrewStep /\ addGrain
    \/ BrewStep /\ \E id \in Ids(grainBill) : removeGrain(id)

\* The hop schedule and batch size edited
HopsNext ==
    \/ BrewStep /\ \E v \in HopBatchInputs : SetBatchSize(v)
    \/ BrewStep /\ \E id \in Ids(hopSchedule), v \in WeightOzInputs :
                        updateHop(id, "weightOz", v)
    \/ BrewStep /\ \E id \in Ids(hopSchedule), v \in AlphaAcidInputs :
                        updateHop(id, "alphaAcid", v)
    \/ BrewStep /\ \E id \in Ids(hopSchedule), v \in TimeMinInputs :
                        updateHop(id, "timeMin", v)
    \/ BrewStep /\ \E id \in Ids(hopSchedule), v \in HopTypes : updateHop(id, "type", v)
    \/ BrewStep /\ addHop
    \/ BrewStep /\ \E id \in Ids(hopSchedule) : removeHop(id)

\* The water inputs and batch size edited
WaterNext ==
    \/ BrewStep /\ \E v \in BatchInputs : SetBatchSize(v)
    \/ BrewStep /\ \E ion \in Ions, v \in SourceIonInputs : SetSourceIon(ion, v)
    \/ BrewStep /\ \E n \in SaltNames, v \in SaltGramInputs : SetSaltAddition(n, v)

--------------------------------------------------------------------------
(* Part III: BrewMaster, yeast pitch and keg balance (ServiceCard.tsx) *)

\* DEFAULT_RECIPE.yeast and .kegConfig (lines 203, 210): cells in billions, pitch rate
\* in 1/100, co2Vol and lineResistance in tenths, tempF and heightRiseFt whole
CellarInit ==
    /\ yeastProfile = [cellsPerPack |-> 100, packs |-> 1, viability |-> 95,
                       targetPitchRate |-> 75]
    /\ kegConfig = [tempF |-> 38, co2Vol |-> 24, lineResistance |-> 22,
                    heightRiseFt |-> 1]

\* x >= 0 as JavaScript compares it (false for NaN)
Ge0(x) == x.k # "nan" /\ x.v >= 0

\* -x
NumNeg(x) == IF x.k = "nan" THEN NaN ELSE [x EXCEPT !.v = -x.v]

\* Math.max(0, x): NaN stays NaN
MathMax0(x) == IF x.k = "nan" THEN NaN ELSE IF x.v < 0 THEN Fin(0) ELSE x

\* ---- Yeast (lines 339-342)
\* (og - 1) * 1000 / 4, in 1/100 degree
plato == NumScale(NumAdd(og, Fin(-100000)), 1, 4)

\* recipe.batchSizeGal * 3785.41, in mL
BatchMl == NumScale(NumScale(batchSizeGal, 1, 10), 37854, 10000)

\* targetPitchRate * mL * plato / 1000, in 1/100 billion
totalCellsNeededBillions ==
    IF BatchMl.k = "fin" /\ plato.k = "fin"
      THEN Fin(TruncDiv(TruncDiv(yeastProfile.targetPitchRate * BatchMl.v, 100)
                          * plato.v, 1000))
      ELSE NaN

\* packs * cellsPerPack * (viability / 100), in 1/100 billion
totalCellsAvailable ==
    yeastProfile.packs * yeastProfile.cellsPerPack * yeastProfile.viability

yeastDifference == NumAdd(Fin(totalCellsAvailable), NumNeg(totalCellsNeededBillions))

\* the result panel (lines 735-737): yeastDifference >= 0 ? sufficient : underpitch
\* the comparison taken strictly
YeastPanelStrict ==
    IF yeastDifference.k # "nan" /\ yeastDifference.v > 0
      THEN "Pitch Rate Sufficient" ELSE "Underpitch"

YeastPanel == IF Ge0(yeastDifference) THEN "Pitch Rate Sufficient" ELSE "Underpitch"

\* ---- Kegging (lines 351-354)
\* the polynomial in 1/10000 PSI for whole degrees T and tenths of a volume V
KegPolynomial(T, V) ==
    -166999 - TruncDiv(101059 * T, 1000) + TruncDiv(116512 * T * T, 10000)
      + TruncDiv(17335 * T * V, 100) + TruncDiv(424267 * V, 100)
      - TruncDiv(TruncDiv(68423 * V, 100) * V, 100)

\* the square term taken ten times too large
servingPSITenfoldSquare(T, V) ==
    Max(0, KegPolynomial(T, V) - 9 * TruncDiv(TruncDiv(68423 * V, 100) * V, 100))

\* Math.max(0, polynomial)
servingPSIOf(T, V) == Max(0, KegPolynomial(T, V))

servingPSI == servingPSIOf(kegConfig.tempF, kegConfig.co2Vol)

\* servingPSI - heightRiseFt * 0.5
resistanceNeeded == servingPSI - kegConfig.heightRiseFt * 5000

\* the quotient without Math.max(0, ...)
lineLengthFtUnfloored == NumDiv(Fin(resistanceNeeded), 1, Fin(10 * kegConfig.lineResistance))

\* Math.max(0, resistanceNeeded / lineResistance), in 1/100 ft
lineLengthFt ==
    MathMax0(NumDiv(Fin(resistanceNeeded), 1, Fin(10 * kegConfig.lineResistance)))

\* ---- Handlers: the NumberInputs of the yeast and kegging cards hand on finite numbers
PackInputs == {0, 1, 2, 3}
CellsPerPackInputs == {100, 200}
ViabilityInputs == {50, 95, 100}
PitchRateInputs == {0, 75, 150}
KegTempInputs == {0, 10, 38, 70}
Co2VolInputs == {0, 10, 24, 40, 500, 800, 1000}
LineResistanceInputs == {0, 22, 30}
HeightRiseInputs == {0, 1, 30}

\* lines 707, 714, 718, 722
SetYeastProfile(field, v) ==
    /\ yeastProfile' = [yeastProfile EXCEPT ![field] = v]
    /\ UNCHANGED kegConfig

\* lines 823-836
SetKegConfig(field, v) ==
    /\ kegConfig' = [kegConfig EXCEPT ![field] = v]
    /\ UNCHANGED yeastProfile

CellarStep == UNCHANGED <<pizzaVars, events, brewVars, tapVars, settingsVars, shellVars>>

\* The yeast card, batch size and efficiency edited
YeastNext ==
    \/ BrewStep /\ \E v \in BatchInputs : SetBatchSize(v)
    \/ BrewStep /\ \E v \in EfficiencyInputs : SetEfficiency(v)
    \/ CellarStep /\ \E v \in PackInputs : SetYeastProfile("packs", v)
    \/ CellarStep /\ \E v \in CellsPerPackInputs : SetYeastProfile("cellsPerPack", v)
    \/ CellarStep /\ \E v \in ViabilityInputs : SetYeastProfile("viability", v)
    \/ CellarStep /\ \E v \in PitchRateInputs : SetYeastProfile("targetPitchRate", v)

\* The kegging card edited
KegNext ==
    \/ CellarStep /\ \E v \in KegTempInputs : SetKegConfig("tempF", v)
    \/ CellarStep /\ \E v \in Co2VolInputs : SetKegConfig("co2Vol", v)
    \/ CellarStep /\ \E v \in LineResistanceInputs : SetKegConfig("lineResistance", v)
    \/ CellarStep /\ \E v \in HeightRiseInputs : SetKegConfig("heightRiseFt", v)

--------------------------------------------------------------------------
(* Part IV: TapList (src/unnamed/part_000) *)

\* JSON null
Null == [k |-> "null", v |-> 0]

\* ---- srmToColor (lines 28-42); srm in tenths
\* the number a comparison sees: null compares as 0
ToNumber(x) == IF x.k = "null" THEN Fin(0) ELSE IF x.k = "undef" THEN NaN ELSE x

\* srm <= t, srm < t and srm > t for a whole threshold t (false for NaN)
SrmLe(val, t) == ToNumber(val).k = "fin" /\ ToNumber(val).v <= 10 * t
SrmLt(val, t) == ToNumber(val).k = "fin" /\ ToNumber(val).v < 10 * t
SrmGt(val, t) == ToNumber(val).k = "fin" /\ ToNumber(val).v > 10 * t

\* the chain with every <= taken as <
srmToColorStrict(val) ==
    IF SrmLt(val, 2) THEN "#F8F753"
    ELSE IF SrmLt(val, 3) THEN "#F6F513"
    ELSE IF SrmLt(val, 4) THEN "#ECE61A"
    ELSE IF SrmLt(val, 6) THEN "#D5BC26"
    ELSE IF SrmLt(val, 9) THEN "#BF923B"
    ELSE IF SrmLt(val, 12) THEN "#BF813A"
    ELSE IF SrmLt(val, 15) THEN "#BC6733"
    ELSE IF SrmLt(val, 20) THEN "#8D4C32"
    ELSE IF SrmLt(val, 24) THEN "#5D341A"
    ELSE IF SrmLt(val, 30) THEN "#261716"
    ELSE IF SrmGt(val, 30) \/ ToNumber(val) = Fin(300) THEN "#030403"
    ELSE "#F8F753"

srmToColor(val) ==
    IF SrmLe(val, 2) THEN "#F8F753"
    ELSE IF SrmLe(val, 3) THEN "#F6F513"
    ELSE IF SrmLe(val, 4) THEN "#ECE61A"
    ELSE IF SrmLe(val, 6) THEN "#D5BC26"
    ELSE IF SrmLe(val, 9) THEN "#BF923B"
    ELSE IF SrmLe(val, 12) THEN "#BF813A"
    ELSE IF SrmLe(val, 15) THEN "#BC6733"
    ELSE IF SrmLe(val, 20) THEN "#8D4C32"
    ELSE IF SrmLe(val, 24) THEN "#5D341A"
    ELSE IF SrmLe(val, 30) THEN "#261716"
    ELSE IF SrmGt(val, 30) THEN "#030403"
    ELSE "#F8F753"

\* getBarColor (lines 49-51)
getBarColor(val) == srmToColor(val)

\* ---- Taps, settings, storage
\* the fields of a Tap the model follows
Tap(id, val) == [id |-> id, srm |-> val]

DEFAULT_TAP_COUNT == 4

\* the list built at lines 163-172: srm 3
DefaultTaps == [i \in 1..DEFAULT_TAP_COUNT |-> Tap(i, Fin(30))]

\* JSON.stringify of a tap list: a NaN srm is written as null
JSONStringify(list) ==
    [i \in 1..Len(list) |->
        [list[i] EXCEPT !.srm = IF list[i].srm.k = "fin" THEN list[i].srm ELSE Null]]

\* JSON.parse of a text JSON.stringify wrote
JSONParse(text) == text

\* localStorage.getItem('taps'): no item, or the stored text
NoItem == [present |-> FALSE, text |-> <<>>]
Item(text) == [present |-> TRUE, text |-> text]

\* settings.storage.enabled && settings.storage.url
RemoteEnabled(st) == st.enabled /\ st.url # ""

NoError == "null"
LoadError == "Failed to sync from cloud. Using local data."
SaveError == "Failed to save to cloud. Data saved locally."

\* a fetch and what came back for it
Pending == [status |-> "pending", parses |-> TRUE, taps |-> <<>>]
Request(kind, body) == [kind |-> kind, body |-> body, response |-> Pending]

\* a list a remote store holds
RemoteTaps == <<Tap(1, Fin(120))>>

\* a rejected fetch, a non-OK status, an OK body that is no JSON, an OK empty list,
\* an OK list of taps
LoadResponses ==
    {[status |-> "rejected", parses |-> TRUE, taps |-> <<>>],
     [status |-> "notok", parses |-> TRUE, taps |-> <<>>],
     [status |-> "ok", parses |-> FALSE, taps |-> <<>>],
     [status |-> "ok", parses |-> TRUE, taps |-> <<>>],
     [status |-> "ok", parses |-> TRUE, taps |-> RemoteTaps]}

SaveResponses ==
    {[status |-> "rejected", parses |-> TRUE, taps |-> <<>>],
     [status |-> "notok", parses |-> TRUE, taps |-> <<>>],
     [status |-> "ok", parses |-> TRUE, taps |-> <<>>]}

DropRequest(list, i) ==
    [j \in 1..(Len(list) - 1) |-> IF j < i THEN list[j] ELSE list[j + 1]]

\* the settings the model follows (lines 59-71)
Settings(bf, st) == [brewfather |-> bf, storage |-> st]
settings == Settings(brewfather, storage)

\* the dependencies of the persist effect (line 122) and of the load effect
\* (line 178); a settings object is identified with its value
TapDeps == [mounted |-> TRUE, enabled |-> storage.enabled, url |-> storage.url,
            brewfather |-> brewfather]
TapUnmounted == [mounted |-> FALSE, enabled |-> FALSE, url |-> "",
                 brewfather |-> [userId |-> ""]]
TapSettled == tapRendered = TapDeps

\* the first run of the effects, or storage.enabled or storage.url changed
LoadDepsChanged ==
    \/ ~tapRendered.mounted
    \/ tapRendered.enabled # storage.enabled
    \/ tapRendered.url # storage.url

\* DEFAULT_SETTINGS (lines 75-84)
DEFAULT_BREWFATHER == [userId |-> ""]
DEFAULT_STORAGE == [enabled |-> FALSE, url |-> ""]
DEFAULT_SETTINGS == Settings(DEFAULT_BREWFATHER, DEFAULT_STORAGE)

\* localStorage.getItem('taplist_settings') and localStorage.getItem('bf_settings'):
\* no item, or the stored JSON text; the texts hold strings and booleans only, which
\* JSON.parse gives back as JSON.stringify got them
NoSettings == [present |-> FALSE, value |-> DEFAULT_SETTINGS]
SettingsItem(v) == [present |-> TRUE, value |-> v]
NoBf == [present |-> FALSE, value |-> DEFAULT_BREWFATHER]
BfItem(bf) == [present |-> TRUE, value |-> bf]

\* the initialiser of `settings` (lines 92-101)
InitialSettings(saved, old) ==
    IF old.present THEN Settings(old.value, DEFAULT_STORAGE)
    ELSE IF saved.present THEN saved.value
    ELSE DEFAULT_SETTINGS

\* useState initial values (lines 92-115) over the three localStorage entries
StorageUrls == {"", "https://store"}
TapInitWith(saved, old, item) ==
    /\ savedSettings = saved
    /\ oldBf = old
    /\ brewfather = InitialSettings(saved, old).brewfather
    /\ storage = InitialSettings(saved, old).storage
    /\ taps = <<>>
    /\ isSyncing = FALSE
    /\ syncError = NoError
    /\ editingTapId = 0
    /\ editForm = [srm |-> Undefined]
    /\ localTaps = item
    /\ inFlight = <<>>
    /\ tapRendered = TapUnmounted

\* a first visit: nothing stored
TapInit == TapInitWith(NoSettings, NoBf, NoItem)

\* a later visit: an earlier session left its settings and maybe its taps
StoredTapInit ==
    \E st \in [enabled : BOOLEAN, url : StorageUrls],
       item \in {NoItem, Item(<<Tap(1, Fin(60)), Tap(2, Null)>>)} :
      TapInitWith(SettingsItem(Settings(DEFAULT_BREWFATHER, st)), NoBf, item)

\* Fallback to Local (lines 159-174)
FallbackTaps == IF localTaps.present THEN JSONParse(localTaps.text) ELSE DefaultTaps

\* loadTaps up to its await (lines 126-138), or to its end when remote storage is off
LoadTapsStart ==
    IF RemoteEnabled(storage)
      THEN /\ Len(inFlight) < MaxInFlight
           /\ isSyncing' = TRUE
           /\ syncError' = NoError
           /\ inFlight' = Append(inFlight, Request("load", <<>>))
           /\ UNCHANGED taps
      ELSE /\ syncError' = NoError
           /\ taps' = FallbackTaps
           /\ isSyncing' = FALSE
           /\ UNCHANGED inFlight

\* the effects of a render: the persist effect (lines 120-122) runs after the first
\* render and after every render with new settings, then the load effect after the
\* first render and after a render that changed storage.enabled or storage.url
TapCommit ==
    /\ ~TapSettled
    /\ tapRendered' = TapDeps
    /\ savedSettings' = SettingsItem(settings)
    /\ IF LoadDepsChanged THEN LoadTapsStart
       ELSE UNCHANGED <<taps, isSyncing, syncError, inFlight>>
    /\ UNCHANGED <<storage, brewfather, oldBf, editingTapId, editForm, localTaps>>

\* the network settles a fetch
Respond(i, r) ==
    /\ i \in 1..Len(inFlight)
    /\ inFlight[i].response.status = "pending"
    /\ r \in (IF inFlight[i].kind = "load" THEN LoadResponses ELSE SaveResponses)
    /\ inFlight' = [inFlight EXCEPT ![i].response = r]
    /\ UNCHANGED <<storage, taps, isSyncing, syncError, editingTapId, editForm,
                   localTaps, tapRendered>>

\* loadTaps with the fallback reached without the error banner whatever came back
LoadTapsResumeSilent(i) ==
    /\ i \in 1..Len(inFlight)
    /\ inFlight[i].kind = "load" /\ inFlight[i].response.status # "pending"
    /\ LET r == inFlight[i].response
       IN  IF r.status = "ok" /\ r.parses /\ Len(r.taps) > 0
             THEN taps' = r.taps /\ isSyncing' = FALSE /\ UNCHANGED syncError
             ELSE taps' = FallbackTaps /\ isSyncing' = FALSE /\ UNCHANGED syncError
    /\ inFlight' = DropRequest(inFlight, i)
    /\ UNCHANGED <<storage, editingTapId, editForm, localTaps, tapRendered>>

\* loadTaps from its await on (lines 139-176)
LoadTapsResume(i) ==
    /\ i \in 1..Len(inFlight)
    /\ inFlight[i].kind = "load" /\ inFlight[i].response.status # "pending"
    /\ LET r == inFlight[i].response
       IN  IF r.status = "ok" /\ r.parses /\ Len(r.taps) > 0
             THEN taps' = r.taps /\ isSyncing' = FALSE /\ UNCHANGED syncError
           ELSE IF r.status = "ok" /\ r.parses
             THEN taps' = FallbackTaps /\ isSyncing' = FALSE /\ UNCHANGED syncError
           ELSE syncError' = LoadError /\ taps' = FallbackTaps /\ isSyncing' = FALSE
    /\ inFlight' = DropRequest(inFlight, i)
    /\ UNCHANGED <<storage, editingTapId, editForm, localTaps, tapRendered>>

\* saveTaps with the remote push issued before the local writes, which wait for
\* its answer
saveTapsRemoteFirst(newTaps) ==
    IF RemoteEnabled(storage)
      THEN /\ Len(inFlight) < MaxInFlight
           /\ isSyncing' = TRUE
           /\ syncError' = NoError
           /\ inFlight' = Append(inFlight, Request("save", JSONStringify(newTaps)))
           /\ UNCHANGED <<taps, localTaps>>
      ELSE /\ taps' = newTaps
           /\ localTaps' = Item(JSONStringify(newTaps))
           /\ UNCHANGED <<isSyncing, syncError, inFlight>>

\* saveTaps up to its await (lines 181-200), or to its end when remote storage is off
saveTaps(newTaps) ==
    /\ taps' = newTaps
    /\ localTaps' = Item(JSONStringify(newTaps))
    /\ IF RemoteEnabled(storage)
         THEN /\ Len(inFlight) < MaxInFlight
              /\ isSyncing' = TRUE
              /\ syncError' = NoError
              /\ inFlight' = Append(inFlight, Request("save", JSONStringify(newTaps)))
         ELSE UNCHANGED <<isSyncing, syncError, inFlight>>

\* saveTaps from its await on (lines 201-208)
SaveTapsResume(i) ==
    /\ i \in 1..Len(inFlight)
    /\ inFlight[i].kind = "save" /\ inFlight[i].response.status # "pending"
    /\ IF inFlight[i].response.status = "ok"
         THEN UNCHANGED syncError
         ELSE syncError' = SaveError
    /\ isSyncing' = FALSE
    /\ inFlight' = DropRequest(inFlight, i)
    /\ UNCHANGED <<storage, taps, editingTapId, editForm, localTaps, tapRendered>>

\* lines 236-240 (the Brewfather batch fetch it may start is not followed)
handleEditClick(id) ==
    /\ TapSettled
    /\ \E i \in 1..Len(taps) :
         /\ taps[i].id = id
         /\ editForm' = [srm |-> taps[i].srm]
    /\ editingTapId' = id
    /\ UNCHANGED <<storage, taps, isSyncing, syncError, localTaps, inFlight, tapRendered>>

\* the SRM field of the edit modal (line 634): parseFloat, NaN when empty
SetEditFormSrm(v) ==
    /\ TapSettled
    /\ editingTapId # 0
    /\ editForm' = [editForm EXCEPT !.srm = v]
    /\ UNCHANGED <<storage, taps, isSyncing, syncError, editingTapId, localTaps,
                   inFlight, tapRendered>>

\* lines 242-247
handleSaveTap ==
    /\ TapSettled
    /\ editingTapId # 0
    /\ saveTaps([i \in 1..Len(taps) |->
                    IF taps[i].id = editingTapId
                      THEN [taps[i] EXCEPT !.srm = editForm.srm] ELSE taps[i]])
    /\ editingTapId' = 0
    /\ UNCHANGED <<storage, editForm, tapRendered>>

\* the remote storage switch and URL field of the settings modal (lines 488, 503)
SetStorageEnabled(b) ==
    /\ TapSettled
    /\ storage' = [storage EXCEPT !.enabled = b]
    /\ UNCHANGED <<taps, isSyncing, syncError, editingTapId, editForm, localTaps,
                   inFlight, tapRendered>>

SetStorageUrl(u) ==
    /\ TapSettled
    /\ storage' = [storage EXCEPT !.url = u]
    /\ UNCHANGED <<taps, isSyncing, syncError, editingTapId, editForm, localTaps,
                   inFlight, tapRendered>>

\* the Brewfather user id field of the settings modal (line 461)
SetBrewfatherUserId(u) ==
    /\ TapSettled
    /\ brewfather' = [brewfather EXCEPT !.userId = u]
    /\ UNCHANGED <<tapVars, savedSettings, oldBf>>

\* the page is opened again: the component mounts anew on what localStorage holds;
\* the fetches of the page that is gone are dropped
Reload ==
    /\ TapSettled
    /\ brewfather' = InitialSettings(savedSettings, oldBf).brewfather
    /\ storage' = InitialSettings(savedSettings, oldBf).storage
    /\ taps' = <<>>
    /\ isSyncing' = FALSE
    /\ syncError' = NoError
    /\ editingTapId' = 0
    /\ editForm' = [srm |-> Undefined]
    /\ inFlight' = <<>>
    /\ tapRendered' = TapUnmounted
    /\ UNCHANGED <<localTaps, savedSettings, oldBf>>

\* Sync Status Indicator (lines 308-318)
SyncIndicator ==
    IF storage.enabled
      THEN IF isSyncing THEN "Syncing..."
           ELSE IF syncError # NoError THEN "Sync Failed" ELSE "Synced"
      ELSE "Local"

EditSrmInputs == {NaN, Fin(120)}
UserIds == {"", "user-1"}

TapStep == UNCHANGED <<pizzaVars, brewVars, cellarVars, shellVars>>
TapEffects == UNCHANGED events /\ TapStep
TapAsync == TapEffects /\ UNCHANGED settingsVars
TapModal == events < MaxEvents /\ events' = events + 1 /\ TapStep
TapEvent == TapModal /\ UNCHANGED settingsVars

\* The tap list with remote storage switched on and off, edits and answers
TapsNext ==
    \/ TapEffects /\ TapCommit
    \/ TapAsync /\ \E i \in 1..Len(inFlight), r \in LoadResponses \cup SaveResponses :
                       Respond(i, r)
    \/ TapAsync /\ \E i \in 1..Len(inFlight) : LoadTapsResume(i)
    \/ TapAsync /\ \E i \in 1..Len(inFlight) : SaveTapsResume(i)
    \/ TapEvent /\ \E id \in 1..DEFAULT_TAP_COUNT : handleEditClick(id)
    \/ TapEvent /\ \E v \in EditSrmInputs : SetEditFormSrm(v)
    \/ TapEvent /\ handleSaveTap
    \/ TapEvent /\ \E b \in BOOLEAN : SetStorageEnabled(b)
    \/ TapEvent /\ \E u \in StorageUrls : SetStorageUrl(u)

--------------------------------------------------------------------------
(* Part V: the greeting widget and the AI service                          *)
(* src/unnamed/part_003 lines 1-27, src/components/GreetingWidget.tsx      *)

\* response.text: a string, or undefined
NoText == [defined |-> FALSE, s |-> ""]
Text(s) == [defined |-> TRUE, s |-> s]

\* what ai.models.generateContent settles with: a rejection (or a throw), or a
\* response whose text is undefined, empty, or a message
AiTexts == {"Grid nominal. Welcome back, operator.", "Neon uplink stable.", " "}
AiAnswers ==
    {[kind |-> "throws", text |-> NoText], [kind |-> "returns", text |-> NoText],
     [kind |-> "returns", text |-> Text("")]}
    \cup {[kind |-> "returns", text |-> Text(t)] : t \in AiTexts}
NoAnswer == [kind |-> "none", text |-> NoText]

\* how an async function settles
Resolved(s) == [kind |-> "resolved", value |-> s]
Rejected == [kind |-> "rejected", value |-> ""]
NoResult == [kind |-> "none", value |-> ""]

\* useState("Initializing system...") (GreetingWidget.tsx line 7)
InitialMessage == "Initializing system..."

\* toLocaleDateString of the day the widget mounts on
DateStrings ==
    {"Sunday, November 1", "Monday, November 2", "Tuesday, November 3",
     "Wednesday, November 4", "Thursday, November 5", "Friday, November 6",
     "Saturday, November 7"}

\* module initialisation of the service (lines 3-11) and the widget before its
\* effect has run
GreetInitWith(key) ==
    /\ ai = key
    /\ message = InitialMessage
    /\ dateStr = ""
    /\ vibePc = "unmounted"
    /\ vibeAnswer = NoAnswer
    /\ vibeResult = NoResult

\* no API key in the environment
GreetInit == GreetInitWith(FALSE)

\* x || fallback on a response text
OrElse(text, fallback) == IF text.defined /\ text.s # "" THEN text.s ELSE fallback

\* generateDailyVibe without its try/catch: a failed call rejects
generateDailyVibeUncaught(answer) ==
    IF answer.kind = "throws" THEN Rejected
    ELSE Resolved(OrElse(answer.text, "System Online."))

\* generateDailyVibe from its await on (lines 17-26)
generateDailyVibe(answer) ==
    IF answer.kind = "throws"
      THEN Resolved("System status: Online. AI module offline.")
      ELSE Resolved(OrElse(answer.text, "System Online."))

\* the effect of GreetingWidget (lines 10-23) up to the first await: the date is
\* set, fetchVibe calls generateDailyVibe, which returns at once without a client
\* (line 14) and otherwise awaits the AI service
GreetingMount ==
    /\ vibePc = "unmounted"
    /\ \E d \in DateStrings : dateStr' = d
    /\ IF ~ai
         THEN /\ vibePc' = "returned"
              /\ vibeResult' = Resolved("Welcome back, Commander. System is online.")
         ELSE /\ vibePc' = "awaiting"
              /\ UNCHANGED vibeResult
    /\ UNCHANGED <<ai, message, vibeAnswer>>

\* the AI service settles the call
generateContentSettles(answer) ==
    /\ vibePc = "awaiting"
    /\ vibeAnswer' = answer
    /\ vibePc' = "settled"
    /\ UNCHANGED <<ai, message, dateStr, vibeResult>>

\* generateDailyVibe resumes after its await
generateDailyVibeResume ==
    /\ vibePc = "settled"
    /\ vibeResult' = generateDailyVibe(vibeAnswer)
    /\ vibePc' = "returned"
    /\ UNCHANGED <<ai, message, dateStr, vibeAnswer>>

\* fetchVibe resumes after `await generateDailyVibe()` (lines 18-19); a rejection
\* would end it without setMessage
fetchVibe ==
    /\ vibePc = "returned"
    /\ IF vibeResult.kind = "resolved"
         THEN message' = vibeResult.value /\ vibePc' = "done"
         ELSE vibePc' = "failed" /\ UNCHANGED message
    /\ UNCHANGED <<ai, dateStr, vibeAnswer, vibeResult>>

GreetStep ==
    UNCHANGED <<pizzaVars, events, brewVars, cellarVars, tapVars, settingsVars, scriptVars,
                pageVars>>

GreetNext ==
    \/ GreetStep /\ GreetingMount
    \/ GreetStep /\ \E answer \in AiAnswers : generateContentSettles(answer)
    \/ GreetStep /\ generateDailyVibeResume
    \/ GreetStep /\ fetchVibe

--------------------------------------------------------------------------
(* Part VI: the BigCommerce colour script (src/unnamed/part_002 lines 64-236) *)

\* one line of the textarea; String.prototype.trim and toLowerCase on these lines
\* and on the labels a store holds
LineInputs == {"Red", "red", " Red", "Blue", ""}
StoreLabels == {"RED", "Blue"}
Trim(s) == IF s = " Red" THEN "Red" ELSE s
ToLowerCase(s) ==
    IF s \in {"Red", "RED"} THEN "red"
    ELSE IF s = " Red" THEN " red"
    ELSE IF s = "Blue" THEN "blue"
    ELSE s

\* colorInput.split('\n'), the text held as its lines ('' is <<"">>)
EmptyText == <<"">>

\* what the textarea holds after the next edit: cleared, one line retyped, or a line
\* added below
TypedTexts ==
    {EmptyText} \cup {<<l>> : l \in LineInputs}
    \cup (IF Len(colorInput) < MaxLines
            THEN {Append(colorInput, l) : l \in LineInputs} ELSE {})

\* .map(s => s.trim()).filter(s => s.length > 0) (lines 170-173)
RECURSIVE TrimmedLines(_)
TrimmedLines(lines) ==
    IF lines = <<>> THEN <<>>
    ELSE IF Trim(Head(lines)) = "" THEN TrimmedLines(Tail(lines))
    ELSE <<Trim(Head(lines))>> \o TrimmedLines(Tail(lines))

\* what the store answers: a failed call (rejected fetch, non-OK status), or data
NoResponse == [status |-> "none", hasColors |-> FALSE, labels |-> {}]
Awaited == [status |-> "pending", hasColors |-> FALSE, labels |-> {}]
CallFailed == [status |-> "failed", hasColors |-> FALSE, labels |-> {}]
OptionsResponses ==
    {CallFailed} \cup {[status |-> "ok", hasColors |-> b, labels |-> {}] : b \in BOOLEAN}
ValuesResponses ==
    {CallFailed}
    \cup {[status |-> "ok", hasColors |-> FALSE, labels |-> L] : L \in SUBSET StoreLabels}
CreateResponses == {CallFailed, [status |-> "ok", hasColors |-> FALSE, labels |-> {}]}

\* useState initial values (lines 88-99); the credentials as saved or not
ScriptInitWith(c) ==
    /\ creds = c
    /\ colorInput = EmptyText
    /\ isRunning = FALSE
    /\ bcPc = "idle"
    /\ colorsToCreate = <<>>
    /\ existingLabels = {}
    /\ colorIdx = 0
    /\ bcResponse = NoResponse
    /\ issued = <<>>

ScriptInit == ScriptInitWith(FALSE)

\* the textarea (line 316)
SetColorInput(text) ==
    /\ colorInput' = text
    /\ UNCHANGED <<creds, isRunning, bcPc, colorsToCreate, existingLabels, colorIdx,
                   bcResponse, issued>>

\* the credential fields filled in (store hash and access token), or emptied
SetCreds(c) ==
    /\ creds' = c
    /\ UNCHANGED <<colorInput, isRunning, bcPc, colorsToCreate, existingLabels,
                   colorIdx, bcResponse, issued>>

\* runScript up to its first await (lines 164-186); the button is disabled while
\* isRunning (line 322)
runScript ==
    /\ ~isRunning
    /\ bcPc = "idle"
    /\ IF ~creds \/ TrimmedLines(colorInput) = <<>>
         THEN UNCHANGED <<isRunning, bcPc, colorsToCreate, existingLabels, colorIdx,
                          bcResponse, issued>>
         ELSE /\ isRunning' = TRUE
              /\ colorsToCreate' = TrimmedLines(colorInput)
              /\ existingLabels' = {}
              /\ colorIdx' = 0
              /\ issued' = <<>>
              /\ bcPc' = "options"
              /\ bcResponse' = Awaited
    /\ UNCHANGED <<creds, colorInput>>

\* the store answers the call in flight
apiCallSettles(r) ==
    /\ bcPc # "idle"
    /\ bcResponse.status = "pending"
    /\ r \in (IF bcPc = "options" THEN OptionsResponses
              ELSE IF bcPc = "values" THEN ValuesResponses ELSE CreateResponses)
    /\ bcResponse' = r
    /\ UNCHANGED <<creds, colorInput, isRunning, bcPc, colorsToCreate, existingLabels,
                   colorIdx, issued>>

\* the catch without the finally: isRunning is left as it is
ScriptFailsStillRunning ==
    /\ bcPc' = "idle"
    /\ bcResponse' = NoResponse
    /\ UNCHANGED <<isRunning, colorInput, colorsToCreate, existingLabels, colorIdx, issued>>

\* catch and finally (lines 228-235)
ScriptFails ==
    /\ isRunning' = FALSE
    /\ bcPc' = "idle"
    /\ bcResponse' = NoResponse
    /\ UNCHANGED <<colorInput, colorsToCreate, existingLabels, colorIdx, issued>>

\* the first colour from position i on that existingLabels does not hold, or 0
RECURSIVE NextToCreate(_, _, _)
NextToCreate(colors, existing, i) ==
    IF i > Len(colors) THEN 0
    ELSE IF ToLowerCase(colors[i]) \in existing THEN NextToCreate(colors, existing, i + 1)
    ELSE i

\* the for loop (lines 204-222) from position `from` up to its next await, or past
\* its end (lines 224-225) and through the finally
CreateLoop(existing, from) ==
    LET i == NextToCreate(colorsToCreate, existing, from)
    IN  IF i = 0
          THEN /\ colorInput' = EmptyText
               /\ isRunning' = FALSE
               /\ bcPc' = "idle"
               /\ bcResponse' = NoResponse
               /\ UNCHANGED <<colorIdx, issued>>
          ELSE /\ colorIdx' = i
               /\ issued' = Append(issued, colorsToCreate[i])
               /\ bcPc' = "create"
               /\ bcResponse' = Awaited
               /\ UNCHANGED <<colorInput, isRunning>>

\* runScript after the options call (lines 188-199)
OptionsResume ==
    /\ bcPc = "options"
    /\ bcResponse.status \in {"ok", "failed"}
    /\ IF bcResponse.status = "failed" \/ ~bcResponse.hasColors
         THEN ScriptFails
         ELSE /\ bcPc' = "values"
              /\ bcResponse' = Awaited
              /\ UNCHANGED <<isRunning, colorInput, colorsToCreate, existingLabels,
                             colorIdx, issued>>
    /\ UNCHANGED creds

\* runScript after the values call (lines 200-203), into the loop
ValuesResume ==
    /\ bcPc = "values"
    /\ bcResponse.status \in {"ok", "failed"}
    /\ IF bcResponse.status = "failed"
         THEN ScriptFails
         ELSE /\ existingLabels' = {ToLowerCase(l) : l \in bcResponse.labels}
              /\ CreateLoop(existingLabels', 1)
              /\ UNCHANGED colorsToCreate
    /\ UNCHANGED creds

\* runScript after a create call (lines 211-221), on with the loop
CreateResume ==
    /\ bcPc = "create"
    /\ bcResponse.status \in {"ok", "failed"}
    /\ IF bcResponse.status = "failed"
         THEN ScriptFails
         ELSE /\ CreateLoop(existingLabels, colorIdx + 1)
              /\ UNCHANGED <<colorsToCreate, existingLabels>>
    /\ UNCHANGED creds

ScriptStep ==
    UNCHANGED <<pizzaVars, brewVars, cellarVars, tapVars, settingsVars, greetVars, pageVars>>
ScriptAsync == UNCHANGED events /\ ScriptStep
ScriptEvent == events < MaxEvents /\ events' = events + 1 /\ ScriptStep

\* what the script does by itself once started
ScriptRuns ==
    \/ ScriptAsync /\ \E r \in OptionsResponses \cup ValuesResponses \cup CreateResponses :
                         apiCallSettles(r)
    \/ ScriptAsync /\ OptionsResume
    \/ ScriptAsync /\ ValuesResume
    \/ ScriptAsync /\ CreateResume

ScriptNext ==
    \/ ScriptRuns
    \/ ScriptEvent /\ \E text \in TypedTexts : SetColorInput(text)
    \/ ScriptEvent /\ \E c \in BOOLEAN : SetCreds(c)
    \/ ScriptEvent /\ runScript

--------------------------------------------------------------------------
(* Part VII: the UTM link generator (PizzaCalculator.tsx lines 522-830) *)

\* what is typed into the URL and source fields; "a b" is no URL
ParamInputs == {[url |-> "", source |-> ""], [url |-> "a.com", source |-> ""],
                [url |-> "a.com", source |-> "news"], [url |-> "a b", source |-> "news"]}

\* DEFAULTS (lines 545-552), with the two fields the model types into
DEFAULTS == [url |-> "", source |-> ""]

\* baseUrl.startsWith('http://') || baseUrl.startsWith('https://') (line 581)
StartsWithProtocol(u) == u \in {"https://a.com", "http://a.com"}

\* new URL(baseUrl) (line 585): the normalised href, or a throw
Throws == [ok |-> FALSE, href |-> ""]
NewURL(baseUrl) ==
    IF baseUrl \in {"https://a.com", "https://a.com/"}
    THEN [ok |-> TRUE, href |-> "https://a.com/"]
    ELSE Throws

\* the body of the 'Generate URL' effect (lines 571-597)
GenerateUrl(p) ==
    IF p.url = "" THEN ""
    ELSE LET baseUrl == IF StartsWithProtocol(p.url) THEN p.url ELSE "https://" \o p.url
             urlObj == NewURL(baseUrl)
         IN  IF ~urlObj.ok THEN ""
             ELSE IF p.source # "" THEN urlObj.href \o "?utm_source=" \o p.source
             ELSE urlObj.href

\* what the effects of the last commit saw
UtmDeps == [mounted |-> TRUE, params |-> params, history |-> history]
UtmUnmounted == [mounted |-> FALSE, params |-> DEFAULTS, history |-> <<>>]
UtmSettled == utmRendered = UtmDeps

\* useState initialisers (lines 557-563), on a browser without 'utm_history'
UtmInit ==
    /\ params = DEFAULTS
    /\ generatedUrl = ""
    /\ copied = FALSE
    /\ history = <<>>
    /\ utm_history = <<>>
    /\ clipboard = ""
    /\ now = 0
    /\ utmRendered = UtmUnmounted

\* a commit runs the persistence effect (lines 566-568) and the 'Generate URL'
\* effect (lines 571-597), each when its dependency changed
UtmCommit ==
    /\ ~UtmSettled
    /\ utmRendered' = UtmDeps
    /\ utm_history' = IF ~utmRendered.mounted \/ utmRendered.history # history
                      THEN history ELSE utm_history
    /\ generatedUrl' = IF ~utmRendered.mounted \/ utmRendered.params # params
                       THEN GenerateUrl(params) ELSE generatedUrl
    /\ UNCHANGED <<params, copied, history, clipboard, now>>

\* the URL and source inputs' onChange
SetParams(p) ==
    /\ UtmSettled
    /\ params' = p
    /\ UNCHANGED <<generatedUrl, copied, history, utm_history, clipboard, now, utmRendered>>

\* the item handleCopy builds (lines 607-612); Date.now() is the clock's reading
NewItem == [url |-> params.url, source |-> params.source, timestamp |-> now,
            fullUrl |-> generatedUrl]

\* the updater handed to setHistory (lines 614-618), without the slice
AddToHistoryUnsliced(prev, newItem) ==
    IF Len(prev) > 0 /\ prev[1].fullUrl = newItem.fullUrl THEN prev
    ELSE <<newItem>> \o prev

\* the updater handed to setHistory (lines 614-618)
AddToHistory(prev, newItem) ==
    IF Len(prev) > 0 /\ prev[1].fullUrl = newItem.fullUrl THEN prev
    ELSE SubSeq(<<newItem>> \o prev, 1, Min(HistoryLimit, Len(prev) + 1))

\* the component's state after a click on Copy (lines 600-619); the clock has moved
\* on by the time the next entry is built
AfterCopy ==
    IF generatedUrl = ""
    THEN [clipboard |-> clipboard, copied |-> copied,
          history |-> history, now |-> now]
    ELSE [clipboard |-> generatedUrl, copied |-> TRUE,
          history |-> AddToHistory(history, NewItem),
          now |-> IF AddToHistory(history, NewItem) = history THEN now ELSE now + 1]

handleCopy ==
    /\ UtmSettled
    /\ now < MaxNow
    /\ clipboard' = AfterCopy.clipboard
    /\ copied' = AfterCopy.copied
    /\ history' = AfterCopy.history
    /\ now' = AfterCopy.now
    /\ UNCHANGED <<params, generatedUrl, utm_history, utmRendered>>

\* setTimeout(() => setCopied(false), 2000) (line 604) fires; a timer that finds
\* copied false already leaves the state as it is
CopiedTimeout ==
    /\ copied
    /\ copied' = FALSE
    /\ UNCHANGED <<params, generatedUrl, history, utm_history, clipboard, now, utmRendered>>

handleReset ==
    /\ UtmSettled
    /\ params' = DEFAULTS
    /\ UNCHANGED <<generatedUrl, copied, history, utm_history, clipboard, now, utmRendered>>

\* 'restore' on an entry of the list (lines 625-635)
handleHistoryRestore(item) ==
    /\ UtmSettled
    /\ params' = [url |-> item.url, source |-> item.source]
    /\ UNCHANGED <<generatedUrl, copied, history, utm_history, clipboard, now, utmRendered>>

\* 'Clear All' (lines 637-641), with the answer to the confirm dialog
clearHistory(confirmed) ==
    /\ UtmSettled
    /\ history' = IF confirmed THEN <<>> ELSE history
    /\ UNCHANGED <<params, generatedUrl, copied, utm_history, clipboard, now, utmRendered>>

UtmStep ==
    UNCHANGED <<pizzaVars, events, brewVars, cellarVars, tapVars, settingsVars, greetVars,
                scriptVars, routeVars, fleetVars>>

\* the entries the model restores: the newest and the oldest of the list
RestoreInputs == {history[i] : i \in {1, Len(history)} \cap DOMAIN history}

UtmNext ==
    \/ UtmStep /\ UtmCommit
    \/ UtmStep /\ \E p \in ParamInputs : SetParams(p)
    \/ UtmStep /\ handleCopy
    \/ UtmStep /\ CopiedTimeout
    \/ UtmStep /\ handleReset
    \/ UtmStep /\ \E item \in RestoreInputs : handleHistoryRestore(item)
    \/ UtmStep /\ history # <<>> /\ \E confirmed \in BOOLEAN : clearHistory(confirmed)

--------------------------------------------------------------------------
(* Part VIII: the hash router (src/unnamed/part_003 lines 32-139) and the    *)
(* routes of App (src/unnamed/part_002 lines 11-33).                         *)
(* A string is held as the sequence of its pieces: "#", "/", "?" and "*"     *)
(* stand for themselves, every other piece is a run of other characters.     *)

\* <Routes> of App (part_002 lines 15-29), in the order written there
ROUTES ==
    << [path |-> <<"/">>, element |-> "Home", to |-> <<>>],
       [path |-> <<"/", "tools">>, element |-> "Tools", to |-> <<>>],
       [path |-> <<"/", "tools", "/", "pizza">>, element |-> "PizzaCalculator", to |-> <<>>],
       [path |-> <<"/", "tools", "/", "fleet">>, element |-> "FleetLog", to |-> <<>>],
       [path |-> <<"/", "tools", "/", "brewing">>, element |-> "BrewMaster", to |-> <<>>],
       [path |-> <<"/", "tools", "/", "bc-colors">>, element |-> "BigCommerceColorTool",
        to |-> <<>>],
       [path |-> <<"/", "tools", "/", "utm-generator">>, element |-> "UTMGenerator",
        to |-> <<>>],
       [path |-> <<"*">>, element |-> "Navigate", to |-> <<"/">>] >>

\* the same children in other orders: the wildcard first, and back to front
Reversed(s) == [i \in 1..Len(s) |-> s[Len(s) + 1 - i]]
RouteOrders ==
    {ROUTES, <<ROUTES[Len(ROUTES)]>> \o SubSeq(ROUTES, 1, Len(ROUTES) - 1), Reversed(ROUTES)}

\* the targets of the <Link>s of the layout and the tool cards
LinkTargets == {ROUTES[i].path : i \in 1..Len(ROUTES) - 1}

\* what the address bar is set to
HashInputs ==
    { <<>>,
      <<"#", "/">>,
      <<"#", "/", "tools">>,
      <<"#", "/", "tools", "/">>,
      <<"#", "/", "tools", "?", "tab=1">>,
      <<"#", "/", "tools", "/", "pizza", "/", "?", "x=1", "/">>,
      <<"#", "/", "nope">>,
      <<"#", "tools">>,
      <<"#", "/", "tools", "/", "nope">>,
      <<"#", "/", "tools", "/", "/">>,
      <<"#", "*">> }

\* path.split('?')[0] (line 53)
BeforeQuery(p) ==
    LET i == CHOOSE k \in 1..Len(p) : p[k] = "?" /\ \A j \in 1..k - 1 : p[j] # "?"
    IN  SubSeq(p, 1, i - 1)

\* normalizePath (lines 51-56)
normalizePath(h) ==
    LET sliced == IF h = <<>> THEN <<>> ELSE Tail(h)
        noQuery == IF \E k \in 1..Len(sliced) : sliced[k] = "?"
                   THEN BeforeQuery(sliced) ELSE sliced
        noSlash == IF Len(noQuery) > 1 /\ noQuery[Len(noQuery)] = "/"
                   THEN SubSeq(noQuery, 1, Len(noQuery) - 1) ELSE noQuery
    IN  IF noSlash = <<>> THEN <<"/">> ELSE noSlash

\* nothing to render: match and fallback both null
NoRoute == [path |-> <<>>, element |-> "null", to |-> <<>>]

\* the loop of Routes (lines 113-129) from child i on, the fallback found so far
\* given, and what 'match || fallback' is
RECURSIVE RoutesFrom(_, _, _, _)
RoutesFrom(children, currentPath, i, fallback) ==
    IF i > Len(children) THEN fallback
    ELSE IF children[i].path = currentPath THEN children[i]
    ELSE RoutesFrom(children, currentPath, i + 1,
                    IF children[i].path = <<"*">> THEN children[i] ELSE fallback)

\* a Routes that renders the first child that is the wildcard or the exact match
RECURSIVE RoutesFirstHit(_, _)
RoutesFirstHit(children, currentPath) ==
    IF children = <<>> THEN NoRoute
    ELSE IF Head(children).path = currentPath \/ Head(children).path = <<"*">>
         THEN Head(children)
    ELSE RoutesFirstHit(Tail(children), currentPath)

\* Routes (lines 106-132): the child it renders
Routes(children, currentPath) == RoutesFrom(children, currentPath, 1, NoRoute)

\* what the last commit rendered
RouteDeps == [mounted |-> TRUE, path |-> path]
RouteUnmounted == [mounted |-> FALSE, path |-> <<"/">>]
RouteSettled == routeRendered = RouteDeps /\ ~hashchangePending

\* HashRouter's useState (line 58) on a page opened with hash h, its children in
\* the order rs
RouteInitWith(h, rs) ==
    /\ hash = h
    /\ path = normalizePath(h)
    /\ hashchangePending = FALSE
    /\ routes = rs
    /\ routeRendered = RouteUnmounted

RouteInit == RouteInitWith(<<>>, ROUTES)

\* window.location.hash = newPath (lines 68-70); the browser queues a hashchange
\* event when the hash has changed
navigate(newPath) ==
    /\ hash' = <<"#">> \o newPath
    /\ hashchangePending' = (hashchangePending \/ hash' # hash)

\* a commit of the router: Routes renders its child, and the effect of a rendered
\* Navigate (lines 100-104) runs, navigate being a new function after every render
RouteCommit ==
    /\ routeRendered # RouteDeps
    /\ routeRendered' = RouteDeps
    /\ LET child == Routes(routes, path)
       IN  IF child.element = "Navigate" THEN navigate(child.to)
           ELSE UNCHANGED <<hash, hashchangePending>>
    /\ UNCHANGED <<path, routes>>

\* handleHashChange (lines 61-63)
handleHashChange ==
    /\ hashchangePending
    /\ hashchangePending' = FALSE
    /\ path' = normalizePath(hash)
    /\ UNCHANGED <<hash, routes, routeRendered>>

\* Link's handleClick (lines 82-86)
LinkClick(to) ==
    /\ RouteSettled
    /\ navigate(to)
    /\ UNCHANGED <<path, routes, routeRendered>>

\* the user edits the address bar
EnterHash(h) ==
    /\ RouteSettled
    /\ hash' = h
    /\ hashchangePending' = (h # hash)
    /\ UNCHANGED <<path, routes, routeRendered>>

RouteStep ==
    UNCHANGED <<pizzaVars, brewVars, cellarVars, tapVars, settingsVars, greetVars,
                scriptVars, utmVars, fleetVars>>
RouteAsync == UNCHANGED events /\ RouteStep
RouteEvent == events < MaxEvents /\ events' = events + 1 /\ RouteStep

\* what the router does by itself
RouterRuns ==
    \/ RouteAsync /\ RouteCommit
    \/ RouteAsync /\ handleHashChange

RouteNext ==
    \/ RouterRuns
    \/ RouteEvent /\ \E to \in LinkTargets : LinkClick(to)
    \/ RouteEvent /\ \E h \in HashInputs : EnterHash(h)

--------------------------------------------------------------------------
(* Part IX: FleetLog (src/pages/tools/FleetLog.tsx).                         *)
(* A date is the number of its day, 2024-01-01 being day 0, and a month is   *)
(* counted as 30 days; an optional number is a record that says whether it   *)
(* is defined; an optional field only ever read through '|| 0' or a test     *)
(* for truthiness is 0 when it is absent.                                    *)

NoNumber == [defined |-> FALSE, value |-> 0]
Num(n) == [defined |-> TRUE, value |-> n]

\* SEED_ASSETS (lines 74-131)
SEED_ASSETS ==
    << [id |-> "1", currentUsage |-> 62300, usageUnit |-> "miles", purchaseDate |-> NoNumber],
       [id |-> "2", currentUsage |-> 8500, usageUnit |-> "miles", purchaseDate |-> NoNumber],
       [id |-> "3", currentUsage |-> 0, usageUnit |-> "none", purchaseDate |-> NoNumber],
       [id |-> "4", currentUsage |-> 0, usageUnit |-> "none", purchaseDate |-> NoNumber] >>

\* SEED_RULES (lines 133-140)
SEED_RULES ==
    << [id |-> "r1", assetId |-> "1", name |-> "Oil Change", type |-> "both",
        intervalMonths |-> 12, intervalUsage |-> 3000, oneTimeDueUsage |-> 0],
       [id |-> "r2", assetId |-> "1", name |-> "Diff Fluid Break-in", type |-> "usage",
        intervalMonths |-> 0, intervalUsage |-> 0, oneTimeDueUsage |-> 62800],
       [id |-> "r3", assetId |-> "2", name |-> "Oil Change", type |-> "both",
        intervalMonths |-> 12, intervalUsage |-> 7500, oneTimeDueUsage |-> 0],
       [id |-> "r4", assetId |-> "2", name |-> "Tire Rotation", type |-> "usage",
        intervalMonths |-> 0, intervalUsage |-> 7500, oneTimeDueUsage |-> 0],
       [id |-> "r5", assetId |-> "3", name |-> "Filter Replacement", type |-> "time",
        intervalMonths |-> 3, intervalUsage |-> 0, oneTimeDueUsage |-> 0],
       [id |-> "r6", assetId |-> "4", name |-> "OS Updates & Reboot", type |-> "time",
        intervalMonths |-> 1, intervalUsage |-> 0, oneTimeDueUsage |-> 0] >>

\* SEED_LOGS (lines 142-160)
SEED_LOGS ==
    << [assetId |-> "1", date |-> 91, description |-> "Oil Change",
        usageAtTime |-> Num(61500)],
       [assetId |-> "1", date |-> 130, description |-> "Diff Rebuild (3.55 Gears)",
        usageAtTime |-> Num(62300)],
       [assetId |-> "3", date |-> 335, description |-> "New Filter",
        usageAtTime |-> NoNumber],
       [assetId |-> "2", date |-> 288, description |-> "First Oil Change",
        usageAtTime |-> Num(4000)] >>

\* l.description.toLowerCase().includes(rule.name.toLowerCase()) (line 170), over
\* the descriptions and rule names of the model
DescriptionIncludes(description, name) ==
    <<description, name>> \in
        { <<"Oil Change", "Oil Change">>, <<"First Oil Change", "Oil Change">>,
          <<"oil change + filter", "Oil Change">>,
          <<"Diff Fluid Break-in", "Diff Fluid Break-in">>,
          <<"Tire Rotation", "Tire Rotation">>, <<"tire rotation", "Tire Rotation">> }

\* relevantLogs[0] (lines 169-173) as a position in logs, 0 when there is none: the
\* sort is stable, so among the logs of the latest date the first of the list wins
LastLogIndex(asset, rule, ls) ==
    LET relevant == {i \in 1..Len(ls) : /\ ls[i].assetId = asset.id
                                         /\ DescriptionIncludes(ls[i].description, rule.name)}
    IN  IF relevant = {} THEN 0
        ELSE CHOOSE i \in relevant :
                \A j \in relevant : \/ ls[j].date < ls[i].date
                                    \/ (ls[j].date = ls[i].date /\ i <= j)

\* d.setMonth(d.getMonth() + n) (lines 185, 189)
AddMonths(d, n) == d + 30 * n

\* 'Calc Usage Due' (lines 194-200)
UsageDue(rule, hasLast, last) ==
    IF rule.type \in {"usage", "both"}
    THEN IF rule.oneTimeDueUsage # 0 THEN Num(rule.oneTimeDueUsage)
         ELSE IF hasLast /\ last.usageAtTime.defined
              THEN Num(last.usageAtTime.value + rule.intervalUsage)
         ELSE NoNumber
    ELSE NoNumber

\* calculateStatus (lines 164-221) on the day 'day'; now is later than midnight, so
\* daysDue is the difference of the day numbers
calculateStatus(asset, rule, ls, day) ==
    LET k == LastLogIndex(asset, rule, ls)
        hasLast == k # 0
        last == IF hasLast THEN ls[k] ELSE [assetId |-> "", date |-> 0, description |-> "",
                                            usageAtTime |-> NoNumber]
        dueDate == IF rule.type \in {"time", "both"}
                   THEN IF hasLast THEN Num(AddMonths(last.date, rule.intervalMonths))
                        ELSE IF asset.purchaseDate.defined
                             THEN Num(AddMonths(asset.purchaseDate.value, rule.intervalMonths))
                        ELSE NoNumber
                   ELSE NoNumber
        dueUsage == UsageDue(rule, hasLast, last)
        daysDue == dueDate.value - day
        diffUsage == dueUsage.value - asset.currentUsage
        usageChecked == dueUsage.defined /\ dueUsage.value # 0 /\ asset.currentUsage > 0
    IN  [dueDate |-> dueDate, dueUsage |-> dueUsage,
         overdue |-> \/ (dueDate.defined /\ daysDue < 0)
                     \/ (usageChecked /\ diffUsage < 0),
         dueSoon |-> \/ (dueDate.defined /\ daysDue >= 0 /\ daysDue < 30)
                     \/ (usageChecked /\ diffUsage >= 0 /\ diffUsage < 500
                         /\ asset.usageUnit = "miles"),
         lastLog |-> k]

\* useState initialisers (lines 226-242) on a browser without saved fleet data, on
\* the day 'day'
FleetInitOn(day) ==
    /\ assets = SEED_ASSETS
    /\ logs = SEED_LOGS
    /\ rules = SEED_RULES
    /\ showLogModal = FALSE
    /\ showUsageModal = FALSE
    /\ today = day

FleetInit == FleetInitOn(1035)

\* assets.find(a => a.id === id)?.currentUsage || 0 (line 275)
CurrentUsageOf(id) ==
    LET found == {i \in 1..Len(assets) : assets[i].id = id}
    IN  IF found = {} THEN 0 ELSE assets[CHOOSE i \in found : \A j \in found : i <= j].currentUsage

\* prev.map(a => a.id === id ? { ...a, currentUsage: usage } : a) (lines 268, 276)
WithUsage(prev, id, usage) ==
    [i \in 1..Len(prev) |-> IF prev[i].id = id THEN [prev[i] EXCEPT !.currentUsage = usage]
                            ELSE prev[i]]

\* the assets after handleAddLog (lines 274-277), were the usage of the log always
\* taken over
AssetsAfterLogAlways(log) ==
    IF log.usageAtTime.defined /\ log.usageAtTime.value # 0
    THEN WithUsage(assets, log.assetId, log.usageAtTime.value)
    ELSE assets

\* the assets after handleAddLog (lines 274-277)
AssetsAfterLog(log) ==
    IF /\ log.usageAtTime.defined /\ log.usageAtTime.value # 0
       /\ log.usageAtTime.value > CurrentUsageOf(log.assetId)
    THEN WithUsage(assets, log.assetId, log.usageAtTime.value)
    ELSE assets

\* handleAddLog (lines 272-279), called by the form of the log modal
handleAddLog(log) ==
    /\ showLogModal
    /\ logs' = <<log>> \o logs
    /\ assets' = AssetsAfterLog(log)
    /\ showLogModal' = FALSE
    /\ UNCHANGED <<rules, showUsageModal, today>>

\* handleUpdateUsage (lines 267-270), called by an input of the usage modal
handleUpdateUsage(id, usage) ==
    /\ showUsageModal
    /\ assets' = WithUsage(assets, id, usage)
    /\ showUsageModal' = FALSE
    /\ UNCHANGED <<logs, rules, showLogModal, today>>

\* the 'Update Usage' and 'Log Service' buttons (lines 318, 321) and the modals'
\* Close and Cancel (lines 535, 628)
SetShowUsageModal(b) ==
    /\ showUsageModal' = b
    /\ UNCHANGED <<assets, logs, rules, showLogModal, today>>

SetShowLogModal(b) ==
    /\ showLogModal' = b
    /\ UNCHANGED <<assets, logs, rules, showUsageModal, today>>

\* what the form of the log modal is filled in with (lines 545-562)
LogInputs ==
    { [assetId |-> "1", date |-> today, description |-> "Diff Fluid Break-in",
       usageAtTime |-> Num(62800)],
      [assetId |-> "1", date |-> today, description |-> "Diff Fluid Break-in",
       usageAtTime |-> Num(63000)],
      [assetId |-> "1", date |-> today, description |-> "oil change + filter",
       usageAtTime |-> Num(64500)],
      [assetId |-> "2", date |-> today, description |-> "Tire Rotation",
       usageAtTime |-> Num(8500)],
      [assetId |-> "2", date |-> today, description |-> "tire rotation",
       usageAtTime |-> Num(16000)],
      [assetId |-> "2", date |-> 60, description |-> "Tire Rotation",
       usageAtTime |-> Num(17000)],
      [assetId |-> "2", date |-> today, description |-> "Tire Rotation",
       usageAtTime |-> Num(8000)],
      [assetId |-> "2", date |-> today, description |-> "Oil Change",
       usageAtTime |-> NoNumber],
      [assetId |-> "3", date |-> today, description |-> "New Filter",
       usageAtTime |-> Num(0)] }

\* what the inputs of the usage modal are filled in with
UsageInputs == {<<"1", 62000>>, <<"1", 63500>>, <<"2", 9000>>, <<"2", 17000>>}

FleetStep ==
    UNCHANGED <<pizzaVars, brewVars, cellarVars, tapVars, settingsVars, greetVars,
                scriptVars, utmVars, routeVars>>
FleetEvent == events < MaxEvents /\ events' = events + 1 /\ FleetStep

FleetNext ==
    \/ FleetEvent /\ \E log \in LogInputs : handleAddLog(log)
    \/ FleetEvent /\ \E u \in UsageInputs : handleUpdateUsage(u[1], u[2])
    \/ FleetEvent /\ \E b \in BOOLEAN : showUsageModal # b /\ SetShowUsageModal(b)
    \/ FleetEvent /\ \E b \in BOOLEAN : showLogModal # b /\ SetShowLogModal(b)

PagesInit == UtmInit /\ RouteInit /\ FleetInit

ShellInit == GreetInit /\ ScriptInit /\ PagesInit

--------------------------------------------------------------------------

(* Specifications *)

RestInit == CellarInit /\ TapInit /\ ShellInit

\* The whole component: sampled slider positions, at most MaxEvents user events
Budget == events < MaxEvents /\ events' = events + 1 /\ UNCHANGED <<brewVars, restVars>>
PizzaStep == UNCHANGED <<events, brewVars, restVars>>

Init == PizzaInit /\ events = 0 /\ BrewInit /\ RestInit

Next ==
    \/ PizzaStep /\ Commit
    \/ Budget /\ \E id \in StyleIds : SelectStyle(id)
    \/ Budget /\ \E v \in RoomInputs : SetRoomTempHours(v)
    \/ Budget /\ \E v \in ColdInputs : SetColdFermentHours(v)
    \/ Budget /\ ToggleCustomMode
    \/ Budget /\ \E v \in PctInputs(4000, 9000, 50) : SetHydration(v)
    \/ Budget /\ \E v \in PctInputs(0, 500, 10) : SetSalt(v)
    \/ Budget /\ \E v \in PctInputs(0, 1000, 10) : SetOil(v)
    \/ Budget /\ \E v \in PctInputs(0, 1000, 10) : SetSugar(v)
    \/ Budget /\ \E v \in PctInputs(0, 200, 5) : SetYeast(v)

Spec == Init /\ [][Next]_vars

\* hydration values the custom slider is set to
FormulaHydrations == {4000, 6200, 9000}

\* Style, size, count and, in custom mode, hydration edited
FormulaNext ==
    \/ PizzaStep /\ Commit
    \/ PizzaStep /\ \E id \in StyleIds : SelectStyle(id)
    \/ PizzaStep /\ \E v \in Diameters : SetDiameter(v)
    \/ PizzaStep /\ \E v \in Counts : SetCount(v)
    \/ PizzaStep /\ ToggleCustomMode
    \/ PizzaStep /\ \E v \in FormulaHydrations : SetHydration(v)

SpecFormula == Init /\ [][FormulaNext]_vars

\* The component left in auto mode: every slider position, any number of events
DoughNext ==
    \/ PizzaStep /\ Commit
    \/ PizzaStep /\ \E id \in StyleIds : SelectStyle(id)
    \/ PizzaStep /\ \E v \in RoomRange : SetRoomTempHours(v)
    \/ PizzaStep /\ \E v \in ColdRange : SetColdFermentHours(v)

SpecDough == Init /\ [][DoughNext]_vars

\* The schedule of every settled auto-mode state, the bake time edited
ScheduleInit ==
    \E id \in StyleIds :
      \E room \in STYLES[id].fermentation.roomMin..STYLES[id].fermentation.roomMax :
        \E cold \in STYLES[id].fermentation.coldMin..STYLES[id].fermentation.coldMax :
          /\ selectedStyleId = id
          /\ diameter = 16
          /\ count = 2
          /\ roomTempHours = room
          /\ coldFermentHours = cold
          /\ targetDate = DefaultTargetDate
          /\ customMode = FALSE
          /\ hydration = AutoHydration(id, room, cold)
          /\ salt = STYLES[id].salt
          /\ oil = STYLES[id].oil
          /\ sugar = STYLES[id].sugar
          /\ yeast = STYLES[id].yeast
          /\ rendered = [mounted |-> TRUE, selectedStyleId |-> id, customMode |-> FALSE,
                         roomTempHours |-> room, coldFermentHours |-> cold]
          /\ events = 0
          /\ BrewInit
          /\ RestInit

ScheduleNext ==
    PizzaStep /\ \E d \in TargetDates \cup {EmptyDate} : SetTargetDate(d)

SpecSchedule == ScheduleInit /\ [][ScheduleNext]_vars

SpecGrain == Init /\ [][GrainNext]_vars
SpecHops == Init /\ [][HopsNext]_vars
SpecWater == Init /\ [][WaterNext]_vars

\* ---- Whirlpool additions at every temperature band
\* whirlpoolTempF values of a HopAddition: unset, zero, below, at and above the
\* two thresholds
WhirlpoolTempInputs ==
    {Undefined, Fin(-10), Fin(0), Fin(150), Fin(160), Fin(161), Fin(170), Fin(180),
     Fin(181), Fin(200), Fin(212)}

\* DEFAULT_RECIPE with the whirlpool addition's temperature drawn
WhirlpoolInit ==
    /\ PizzaInit /\ events = 0
    /\ grainBill = <<Grain(1, 10000, 37, 18), Grain(2, 500, 34, 400)>>
    /\ \E temp \in WhirlpoolTempInputs :
         hopSchedule = <<Hop(1, 100, 120, 60, "boil", Undefined),
                         Hop(2, 200, 115, 0, "whirlpool", temp)>>
    /\ batchSizeGal = Fin(55000)
    /\ efficiency = Fin(72)
    /\ sourceWater = [ca |-> Fin(50), mg |-> Fin(20), na |-> Fin(80),
                      cl |-> Fin(100), so4 |-> Fin(100), hco3 |-> Fin(150)]
    /\ salts = [n \in SaltNames |-> 0]
    /\ RestInit

WhirlpoolNext ==
    \/ BrewStep /\ \E v \in HopBatchInputs : SetBatchSize(v)
    \/ BrewStep /\ \E id \in Ids(hopSchedule), v \in TimeMinInputs :
                        updateHop(id, "timeMin", v)
    \/ BrewStep /\ \E id \in Ids(hopSchedule), v \in HopTypes : updateHop(id, "type", v)

SpecWhirlpool == WhirlpoolInit /\ [][WhirlpoolNext]_vars

SpecYeast == Init /\ [][YeastNext]_vars
SpecKeg == Init /\ [][KegNext]_vars
\* ---- Swatches of a two-tap list edited through the modal
SrmInputs ==
    {NaN, Fin(-10), Fin(0), Fin(15), Fin(20), Fin(21), Fin(30), Fin(31), Fin(40),
     Fin(41), Fin(60), Fin(61), Fin(90), Fin(91), Fin(120), Fin(121), Fin(150),
     Fin(151), Fin(200), Fin(201), Fin(240), Fin(241), Fin(300), Fin(301), Fin(400)}

\* the component mounted on a stored two-tap list, remote storage off
ColorInit ==
    /\ PizzaInit /\ events = 0 /\ BrewInit /\ CellarInit /\ ShellInit
    /\ storage = DEFAULT_STORAGE
    /\ brewfather = DEFAULT_BREWFATHER
    /\ savedSettings = SettingsItem(DEFAULT_SETTINGS)
    /\ oldBf = NoBf
    /\ \E a \in {Fin(30), Fin(200)} :
         /\ taps = <<Tap(1, a), Tap(2, Fin(60))>>
         /\ localTaps = Item(taps)
    /\ isSyncing = FALSE
    /\ syncError = NoError
    /\ editingTapId = 0
    /\ editForm = [srm |-> Undefined]
    /\ inFlight = <<>>
    /\ tapRendered = TapDeps

ColorNext ==
    \/ TapAsync /\ \E id \in {1, 2} : handleEditClick(id)
    \/ TapAsync /\ \E v \in SrmInputs : SetEditFormSrm(v)
    \/ TapAsync /\ handleSaveTap

TapsInit ==
    PizzaInit /\ events = 0 /\ BrewInit /\ CellarInit /\ StoredTapInit /\ ShellInit
SpecTaps == TapsInit /\ [][TapsNext]_vars
SpecColor == ColorInit /\ [][ColorNext]_vars

\* The greeting widget with and without an API key. The effect runs once the widget
\* is mounted, a promise's continuation runs once the promise has settled, and the
\* call to the AI service settles
GreetSpecInit ==
    /\ PizzaInit /\ events = 0 /\ BrewInit /\ CellarInit /\ TapInit /\ ScriptInit /\ PagesInit
    /\ \E key \in BOOLEAN : GreetInitWith(key)
SpecGreeting == GreetSpecInit /\ [][GreetNext]_vars /\ WF_vars(GreetNext)

\* The settings modal over several sessions, on a browser that may still hold the
\* 'bf_settings' entry of the old format
SettingsInit ==
    /\ PizzaInit /\ events = 0 /\ BrewInit /\ CellarInit /\ ShellInit
    /\ \E old \in {NoBf, BfItem([userId |-> "user-0"])} :
         TapInitWith(NoSettings, old, NoItem)

SettingsNext ==
    \/ TapEffects /\ TapCommit
    \/ TapAsync /\ \E i \in 1..Len(inFlight), r \in LoadResponses : Respond(i, r)
    \/ TapAsync /\ \E i \in 1..Len(inFlight) : LoadTapsResume(i)
    \/ TapEvent /\ \E b \in BOOLEAN : SetStorageEnabled(b)
    \/ TapEvent /\ \E u \in StorageUrls : SetStorageUrl(u)
    \/ TapModal /\ UNCHANGED <<savedSettings, oldBf>>
         /\ \E u \in UserIds : SetBrewfatherUserId(u)
    \/ TapModal /\ Reload

SpecSettings == SettingsInit /\ [][SettingsNext]_vars

\* The colour script on a store that answers or fails; the store answers every call
\* and a continuation runs once its call is answered
ScriptSpecInit ==
    /\ PizzaInit /\ events = 0 /\ BrewInit /\ CellarInit /\ TapInit /\ GreetInit /\ PagesInit
    /\ \E c \in BOOLEAN : ScriptInitWith(c)
SpecScript == ScriptSpecInit /\ [][ScriptNext]_vars /\ WF_vars(ScriptRuns)

\* The UTM generator on its own
SpecUtm == Init /\ [][UtmNext]_vars

\* The router on a page opened with any of the hashes, its routes in any of the
\* orders; the browser delivers every hashchange event and React every commit
RouteSpecInit ==
    /\ PizzaInit /\ events = 0 /\ BrewInit /\ CellarInit /\ TapInit /\ GreetInit /\ ScriptInit
    /\ UtmInit /\ FleetInit
    /\ \E h \in HashInputs, rs \in RouteOrders : RouteInitWith(h, rs)
SpecRoute == RouteSpecInit /\ [][RouteNext]_vars /\ WF_vars(RouterRuns)

\* FleetLog on its own, opened on either of two days
FleetSpecInit ==
    /\ PizzaInit /\ events = 0 /\ BrewInit /\ CellarInit /\ TapInit /\ GreetInit /\ ScriptInit
    /\ UtmInit /\ RouteInit
    /\ \E day \in {400, 1035} : FleetInitOn(day)
SpecFleet == FleetSpecInit /\ [][FleetNext]_vars

--------------------------------------------------------------------------
(* Claims about PizzaCalculator *)

\* C1: in auto mode, once the effects have settled, hydration is the auto-hydration
\* rule applied to the selected style and the current room and cold hours
C1_SettledHydrationIsCurrent ==
    (Settled /\ ~customMode) =>
        hydration = AutoHydration(selectedStyleId, roomTempHours, coldFermentHours)

\* a settled auto-mode state reached by a style change followed by slider moves,
\* none of the three inputs at the value the component was constructed with
C1_Witness ==
    /\ Settled /\ ~customMode
    /\ selectedStyleId = "neapolitan"
    /\ roomTempHours = 10
    /\ coldFermentHours = 36
    /\ hydration = 6700

\* C2: while customMode is true, a step that runs the effects or changes the style,
\* the room hours or the cold hours leaves hydration, salt, oil, sugar and yeast alone
C2_CustomModeFrame ==
    [][(customMode /\ (\/ ~Settled
                       \/ selectedStyleId' # selectedStyleId
                       \/ roomTempHours' # roomTempHours
                       \/ coldFermentHours' # coldFermentHours))
         => UNCHANGED <<hydration, salt, oil, sugar, yeast>>]_vars

\* custom mode, settled after a style change, still holding the percentages the
\* ny_street style had set
C2_Witness ==
    /\ Settled /\ customMode
    /\ selectedStyleId = "detroit"
    /\ hydration = 6330 /\ salt = 250 /\ oil = 150 /\ sugar = 200 /\ yeast = 50

\* the rule as the specification words it, in 24ths of a percent
RuleTarget24(styleId, room, cold) ==
    LET style == STYLES[styleId]
        raw == 24 * style.hydration.default
               + Max(0, cold - style.fermentation.coldMin)
               + 6 * Max(0, room - style.fermentation.roomMin)
    IN  IF raw < 24 * style.hydration.min THEN 24 * style.hydration.min
        ELSE IF raw > 24 * style.hydration.max THEN 24 * style.hydration.max
        ELSE raw

\* C3: the hydration the effect wrote for the style and hours of the last render is a
\* one-decimal value nearest to clamp(default + 0.5*coldOver/12 + 0.25*roomOver, min, max)
\* and lies in the style's [min, max]; the spec's example is 63.25 before rounding
C3_AutoHydrationRule ==
    /\ RuleTarget24("ny_street", 3, 48) * 100 = 6325 * 24
    /\ (rendered.mounted /\ ~rendered.customMode) =>
         LET style == STYLES[rendered.selectedStyleId]
             t24 == RuleTarget24(rendered.selectedStyleId, rendered.roomTempHours,
                                 rendered.coldFermentHours)
             off == 24 * hydration - 100 * t24
         IN  /\ hydration % 10 = 0
             /\ off <= 24 * 5 /\ -off <= 24 * 5
             /\ 100 * style.hydration.min <= hydration
             /\ hydration <= 100 * style.hydration.max

\* the effect has run for thin crust at the top of both sliders, where the raw sum
\* 56 + 2 + 5.5 exceeds the style's maximum of 60
C3_Witness ==
    /\ rendered.mounted /\ ~rendered.customMode
    /\ rendered.selectedStyleId = "thin"
    /\ rendered.roomTempHours = 24 /\ rendered.coldFermentHours = 48
    /\ hydration = 6000

\* hours within the selected style's slider bounds
HoursInStyleBounds ==
    LET f == STYLES[selectedStyleId].fermentation
    IN  /\ f.roomMin <= roomTempHours /\ roomTempHours <= f.roomMax
        /\ f.coldMin <= coldFermentHours /\ coldFermentHours <= f.coldMax

\* C4 as stated: the four milestones are strictly ordered
C4_StrictOrder ==
    (bakeDate.valid /\ HoursInStyleBounds) =>
        /\ startMixDate.time < coldStartDate.time
        /\ coldStartDate.time < ballDate.time
        /\ ballDate.time < bakeDate.time

\* C4 amended: mixTime < coldStart <= ballTime <= bakeTime, where coldStart = ballTime
\* exactly when the cold duration is 0 and ballTime = bakeTime exactly when the
\* style's balling time is 0
C4_WeakOrder ==
    (bakeDate.valid /\ HoursInStyleBounds) =>
        /\ startMixDate.time < coldStartDate.time
        /\ coldStartDate.time <= ballDate.time
        /\ ballDate.time <= bakeDate.time
        /\ (coldStartDate.time = ballDate.time) <=> (coldFermentHours = 0)
        /\ (ballDate.time = bakeDate.time) <=>
               (STYLES[selectedStyleId].fermentation.ballingTime = 0)

\* a typed bake time, a style that balls at bake time and one that can skip the fridge
C4_Witness ==
    /\ bakeDate.valid /\ bakeDate.time # 0 /\ HoursInStyleBounds
    /\ selectedStyleId = "neapolitan"
    /\ coldFermentHours = 0
    /\ coldStartDate.time = ballDate.time
    /\ startMixDate.time < coldStartDate.time

\* C5: ballTime = bakeTime - balling h, coldStart = ballTime - cold h,
\* mixTime = coldStart - room h = bakeTime - (balling + cold + room) h, and bakeTime
\* is the typed instant itself; with no bake time there are no milestones
C5_BackwardSchedule ==
    LET b == STYLES[selectedStyleId].fermentation.ballingTime
    IN  /\ bakeDate.valid <=> ~targetDate.empty
        /\ bakeDate.valid =>
             /\ bakeDate.time = targetDate.minutes * 60000
             /\ ballDate.valid /\ coldStartDate.valid /\ startMixDate.valid
             /\ ballDate.time = bakeDate.time - b * 3600000
             /\ coldStartDate.time = ballDate.time - coldFermentHours * 3600000
             /\ startMixDate.time = coldStartDate.time - roomTempHours * 3600000
             /\ startMixDate.time =
                  bakeDate.time - (b + coldFermentHours + roomTempHours) * 3600000
        /\ ~bakeDate.valid =>
             ~ballDate.valid /\ ~coldStartDate.valid /\ ~startMixDate.valid

\* the spec's example: balling 4 h, cold 48 h, room 3 h give T-4h, T-52h, T-55h
C5_Witness ==
    /\ bakeDate.valid /\ bakeDate.time = 7 * 24 * 3600000
    /\ selectedStyleId = "ny_street"
    /\ coldFermentHours = 48 /\ roomTempHours = 3
    /\ ballDate.time = bakeDate.time - 4 * 3600000
    /\ coldStartDate.time = bakeDate.time - 52 * 3600000
    /\ startMixDate.time = bakeDate.time - 55 * 3600000

--------------------------------------------------------------------------
(* Claims about the BrewMaster math helpers *)

\* C6: whenever the batch volume is <= 0, calculateGravity returns points = 0 and
\* og = 1, whatever the grain bill and the efficiency (NaN included)
C6_GravityVolumeGuard ==
    Le0(batchSizeGal) => (points = Fin(0) /\ og = Fin(100000))

\* a negative batch size, an emptied efficiency field and grain in the bill
C6_Witness ==
    /\ batchSizeGal = Fin(-50000)
    /\ efficiency = NaN
    /\ Len(grainBill) = 2 /\ totalGrainWeight > 0
    /\ points = Fin(0) /\ og = Fin(100000)

\* C7: whenever the batch volume is <= 0, calculateIBU returns 0
C7_IBUZeroSentinel ==
    Le0(batchSizeGal) => ibu = Fin(0)

\* C8: whenever the batch volume is <= 0, calculateSRM returns 0
C8_SRMZeroSentinel ==
    Le0(batchSizeGal) => srm = Fin(0)

\* C9: whenever the total water volume is <= 0, calculateWaterChemistry returns the
\* source profile, whatever the salt masses
C9_WaterVolumeGuard ==
    Le0(totalWater) => waterProfile = sourceWater

\* total water exactly 0 (batch -2.8125 gal against 2.8125 gal of boil-off, trub and
\* absorption) with every salt added
C9_Witness ==
    /\ totalWater = Fin(0)
    /\ \A n \in SaltNames : salts[n] > 0
    /\ waterProfile = sourceWater

\* field values a dry-hop addition is changed to
DryVariants(hop) ==
    { [hop EXCEPT !.weightOz = 300],
      [hop EXCEPT !.alphaAcid = 140],
      [hop EXCEPT !.timeMin = 90],
      [hop EXCEPT !.whirlpoolTempF = Fin(150)],
      [hop EXCEPT !.weightOz = 300, !.alphaAcid = 140, !.timeMin = 90,
                  !.whirlpoolTempF = Fin(150)] }

ReplaceAt(list, i, x) == [j \in 1..Len(list) |-> IF j = i THEN x ELSE list[j]]
RemoveAt(list, i) == [j \in 1..(Len(list) - 1) |-> IF j < i THEN list[j] ELSE list[j + 1]]

\* C10: a dry-hop addition contributes exactly 0: changing its weight, alpha acid,
\* time or temperature, or removing it, leaves the total unchanged, and a schedule of
\* dry-hop additions alone totals 0
C10_DryHopContributesZero ==
    LET gravityNow == og
        total == calculateIBU(hopSchedule, gravityNow, batchSizeGal)
    IN  /\ \A i \in 1..Len(hopSchedule) :
             hopSchedule[i].type = "dry" =>
               /\ \A h \in DryVariants(hopSchedule[i]) :
                    calculateIBU(ReplaceAt(hopSchedule, i, h), gravityNow, batchSizeGal)
                      = total
               /\ calculateIBU(RemoveAt(hopSchedule, i), gravityNow, batchSizeGal) = total
        /\ (\A i \in 1..Len(hopSchedule) : hopSchedule[i].type = "dry") => total = Fin(0)

\* a dry-hop addition with weight and alpha acid beside a boil addition, a positive
\* batch volume and a positive total
C10_Witness ==
    /\ Len(hopSchedule) = 2
    /\ hopSchedule[1].type = "boil"
    /\ hopSchedule[2].type = "dry" /\ hopSchedule[2].weightOz > 0
    /\ hopSchedule[2].alphaAcid > 0
    /\ batchSizeGal = Fin(55000)
    /\ ibu.k = "fin" /\ ibu.v > 0

\* the schedule with the timeMin of every whirlpool addition set to t
WithWhirlpoolTime(hops, t) ==
    [j \in 1..Len(hops) |->
        IF hops[j].type = "whirlpool" THEN [hops[j] EXCEPT !.timeMin = t] ELSE hops[j]]

\* C11: the total bitterness does not depend on the timeMin of whirlpool additions:
\* setting the timeMin of one or of all whirlpool additions to any other value gives
\* the same total
C11_WhirlpoolIgnoresTime ==
    LET gravityNow == og
        total == calculateIBU(hopSchedule, gravityNow, batchSizeGal)
    IN  \A t \in {0, 5, 60, 90} :
          /\ calculateIBU(WithWhirlpoolTime(hopSchedule, t), gravityNow, batchSizeGal)
               = total
          /\ \A i \in 1..Len(hopSchedule) :
               hopSchedule[i].type = "whirlpool" =>
                 calculateIBU(ReplaceAt(hopSchedule, i,
                                        [hopSchedule[i] EXCEPT !.timeMin = t]),
                              gravityNow, batchSizeGal) = total

\* two whirlpool additions, one edited to 20 minutes and one still at 0, with a
\* positive finite total
C11_Witness ==
    /\ Len(hopSchedule) = 2
    /\ hopSchedule[1].type = "whirlpool" /\ hopSchedule[1].timeMin = 60
    /\ hopSchedule[2].type = "whirlpool" /\ hopSchedule[2].timeMin = 20
    /\ batchSizeGal = Fin(50000)
    /\ ibu.k = "fin" /\ ibu.v > 0

\* the factor the claim names for a temperature field, in hundredths
StatedTempFactor(field) ==
    IF field.k = "undef" THEN 50
    ELSE IF field.v > 180 THEN 50 ELSE IF field.v > 160 THEN 20 ELSE 5

--------------------------------------------------------------------------
(* Claims about the TapList colour swatch *)

Thresholds == <<2, 3, 4, 6, 9, 12, 15, 20, 24, 30>>
Swatches ==
    <<"#F8F753", "#F6F513", "#ECE61A", "#D5BC26", "#BF923B", "#BF813A", "#BC6733",
      "#8D4C32", "#5D341A", "#261716", "#030403">>

\* the index of the first threshold a value (in tenths) does not exceed, 11 above all
StatedBand(v) ==
    IF \E i \in 1..Len(Thresholds) : v <= 10 * Thresholds[i]
      THEN CHOOSE i \in 1..Len(Thresholds) :
             /\ v <= 10 * Thresholds[i]
             /\ \A j \in 1..(i - 1) : v > 10 * Thresholds[j]
      ELSE Len(Thresholds) + 1

BandOf(color) == CHOOSE i \in 1..Len(Swatches) : Swatches[i] = color

\* the numeric srm values of the taps on display
ShownSrm == {taps[i].srm : i \in 1..Len(taps)} \cap {Fin(v) : v \in -10..400}

\* C13: every displayed value gets the swatch of the first threshold it does not
\* exceed, black above 30; a value equal to a threshold gets that threshold's own
\* swatch; and a larger value never gets a lower band than a smaller one
C13_SwatchBands ==
    /\ \A x \in ShownSrm :
         /\ srmToColor(x) = Swatches[StatedBand(x.v)]
         /\ \A i \in 1..Len(Thresholds) :
              x.v = 10 * Thresholds[i] => srmToColor(x) = Swatches[i]
         /\ x.v > 300 => srmToColor(x) = "#030403"
    /\ \A x, y \in ShownSrm :
         x.v < y.v => BandOf(srmToColor(x)) <= BandOf(srmToColor(y))

\* a tap saved at exactly 30 beside one saved at 30.1: very dark brown and black
C13_Witness ==
    /\ Len(taps) = 2
    /\ taps[1].srm = Fin(300) /\ srmToColor(taps[1].srm) = "#261716"
    /\ taps[2].srm = Fin(301) /\ srmToColor(taps[2].srm) = "#030403"
    /\ localTaps = Item(taps)

--------------------------------------------------------------------------
(* Claims about water chemistry, dough formulation, yeast and kegging *)

DoubledSalts == [n \in SaltNames |-> 2 * salts[n]]
NoSalts == [n \in SaltNames |-> 0]

\* C14: at a positive total water volume, doubling every salt mass doubles each ion's
\* contribution (result minus source) and leaves the source term as it is; with no
\* salts the result is the source.  Each ppm quotient is kept to a tenth of a ppm,
\* truncated, so the doubled contribution may exceed twice the single one by at most
\* one tenth per salt of the ion
C14_SaltLinearity ==
    Gt0(totalWater) =>
      /\ calculateWaterChemistry(sourceWater, NoSalts, totalWater) = sourceWater
      /\ \A ion \in Ions :
           sourceWater[ion].k = "fin" =>
             LET once == calculateWaterChemistry(sourceWater, salts, totalWater)[ion]
                 twice == calculateWaterChemistry(sourceWater, DoubledSalts,
                                                  totalWater)[ion]
             IN  /\ once.k = "fin" /\ twice.k = "fin"
                 /\ once = waterProfile[ion]
                 /\ ((twice.v - sourceWater[ion].v) - 2 * (once.v - sourceWater[ion].v))
                      \in 0..Len(SaltsOf(ion))
                 /\ (\A i \in 1..Len(SaltsOf(ion)) : salts[SaltsOf(ion)[i]] = 0)
                      => once = sourceWater[ion]

\* every salt at 5 g in the default 8.3125 gal of water over the default source:
\* calcium 5 + (60 + 72 + 105) * 5 / 8.3125 = 147.5 ppm
C14_Witness ==
    /\ totalWater = Fin(83125)
    /\ \A n \in SaltNames : salts[n] = 5
    /\ \A ion \in Ions : sourceWater[ion].k = "fin"
    /\ waterProfile["ca"].v - sourceWater["ca"].v \in 1424..1426

\* C15: flour is the total dough mass divided by totalPercent/100 with totalPercent =
\* 100 + hydration + salt + oil + sugar + yeast; water, salt, oil and sugar are flour
\* times their percentage rounded to the nearest gram and yeast to the nearest tenth
\* of a gram; the total dough mass is the mass of one ball times the count, one ball
\* being area x thickness factor x 28.3495
C15_DoughFormulation ==
    LET pct == [water |-> hydration, salt |-> salt, oil |-> oil, sugar |-> sugar]
        near(shown, exact, unit) == 2 * (shown * unit - exact) \in (1 - unit)..unit
    IN  /\ totalPercent = 10000 + hydration + salt + oil + sugar + yeast
        /\ totalDoughWeightG = count * singleDoughWeightG
        /\ singleDoughWeightOz = area * STYLES[selectedStyleId].tf
        /\ ((singleDoughWeightOz \div 1000) * 2835) \div 100000
             \in (singleDoughWeightG \div 1000 - 2)..(singleDoughWeightG \div 1000 + 2)
        /\ (totalDoughWeightG * 1000 - flourG * totalPercent) \in 0..(totalPercent - 1)
        /\ near(ingredients.flour, flourG, 100)
        /\ \A f \in DOMAIN pct : near(ingredients[f], flourG * pct[f], 1000000)
        /\ near(ingredients.yeast, flourG * yeast, 100000)

\* two 16-inch NY Street pizzas at 62% hydration in custom mode: 969 g of dough,
\* 575 g of flour, water = round(575.06 * 0.62) = 357 g
C15_Witness ==
    /\ customMode /\ selectedStyleId = "ny_street"
    /\ diameter = 16 /\ count = 2
    /\ hydration = 6200 /\ salt = 250 /\ oil = 150 /\ sugar = 200 /\ yeast = 50
    /\ MathRound(totalDoughWeightG, 1000) = 969
    /\ ingredients.flour = 575
    /\ ingredients.water = 357
    /\ ingredients.yeast = 29

\* C16 as stated: cellsAvailable = packs x cellsPerPack x viability/100, and the panel
\* reports an underpitch exactly when cellsAvailable < cellsNeeded
C16_DeficitIffFewerCells ==
    /\ totalCellsAvailable
         = yeastProfile.packs * yeastProfile.cellsPerPack * yeastProfile.viability
    /\ (YeastPanel = "Underpitch")
         <=> (totalCellsNeededBillions.k = "fin"
                /\ totalCellsAvailable < totalCellsNeededBillions.v)

\* C16, amended: cellsAvailable is the product (exactly 95 for one pack of 100 at 95%);
\* with a numeric cellsNeeded the panel reports an underpitch exactly when
\* cellsAvailable < cellsNeeded and sufficiency when they are equal; when cellsNeeded
\* is not a number (batch size or efficiency field empty) it reports an underpitch
C16_DeficitOrNaN ==
    /\ totalCellsAvailable
         = yeastProfile.packs * yeastProfile.cellsPerPack * yeastProfile.viability
    /\ (yeastProfile.packs = 1 /\ yeastProfile.cellsPerPack = 100
          /\ yeastProfile.viability = 95) => totalCellsAvailable = 9500
    /\ totalCellsNeededBillions.k = "fin" =>
         /\ (YeastPanel = "Underpitch")
              <=> totalCellsAvailable < totalCellsNeededBillions.v
         /\ totalCellsAvailable = totalCellsNeededBillions.v
              => YeastPanel = "Pitch Rate Sufficient"
    /\ totalCellsNeededBillions.k = "nan" => YeastPanel = "Underpitch"
    /\ totalCellsNeededBillions.k \in {"fin", "nan"}

\* no packs and a batch size of 0: 0 cells available, 0 needed, reported sufficient
C16_Witness ==
    /\ yeastProfile.packs = 0 /\ batchSizeGal = Fin(0)
    /\ totalCellsAvailable = 0 /\ totalCellsNeededBillions = Fin(0)
    /\ YeastPanel = "Pitch Rate Sufficient"

\* C17: the serving pressure is the polynomial floored at 0, and for a positive line
\* resistance the balanced line length is max(0, (pressure - 0.5 x rise) /
\* resistance); neither is ever negative
C17_KegOutputsNonNegative ==
    /\ servingPSI >= 0
    /\ servingPSI = (IF KegPolynomial(kegConfig.tempF, kegConfig.co2Vol) < 0 THEN 0
                     ELSE KegPolynomial(kegConfig.tempF, kegConfig.co2Vol))
    /\ resistanceNeeded = servingPSI - 5000 * kegConfig.heightRiseFt
    /\ kegConfig.lineResistance > 0 =>
         /\ lineLengthFt.k = "fin" /\ lineLengthFt.v >= 0
         /\ lineLengthFt.v = (IF resistanceNeeded <= 0 THEN 0
                              ELSE resistanceNeeded \div (10 * kegConfig.lineResistance))

\* 38 F and 2.4 volumes (10.2 PSI) against a 30 ft rise (15 PSI): the net resistance
\* is negative and the line length is floored at 0
C17_Witness ==
    /\ kegConfig = [tempF |-> 38, co2Vol |-> 24, lineResistance |-> 22,
                    heightRiseFt |-> 30]
    /\ resistanceNeeded < 0
    /\ lineLengthFt = Fin(0)

\* C18 as stated: at the current temperature the required pressure at any larger
\* carbonation volume is at least the current one
C18_MonotoneEverywhere ==
    \A v2 \in Co2VolInputs :
      kegConfig.co2Vol < v2 => servingPSI <= servingPSIOf(kegConfig.tempF, v2)

\* 0.1368452 * V <= 0.173354 * T + 4.24267, V in tenths: the polynomial is still
\* rising in V
BelowPeak(T, V) == 1368452 * V <= 100 * (173354 * T + 4242670)

\* C18, amended: the required pressure does not fall as the carbonation volume grows
\* up to the volume where the polynomial peaks; 38 F and 2.4 volumes give 10.1967 PSI
C18_MonotoneBelowPeak ==
    /\ \A v2 \in Co2VolInputs :
         (kegConfig.co2Vol < v2 /\ BelowPeak(kegConfig.tempF, v2))
           => servingPSI <= servingPSIOf(kegConfig.tempF, v2)
    /\ servingPSIOf(38, 24) \in 101960..101970

\* 38 F with the carbonation raised to 50 volumes, still below the peak near 79
C18_Witness ==
    /\ kegConfig.tempF = 38 /\ kegConfig.co2Vol = 500
    /\ BelowPeak(38, 500) /\ ~BelowPeak(38, 800)
    /\ servingPSIOf(38, 24) < servingPSIOf(38, 40)
    /\ servingPSIOf(38, 40) < servingPSI

\* ------------------------------------------------------------------------------
\* Claims about loading and saving the tap list
\* ------------------------------------------------------------------------------

\* the list handleSaveTap hands to saveTaps
EditedTaps ==
    [i \in 1..Len(taps) |->
        IF taps[i].id = editingTapId THEN [id |-> taps[i].id, srm |-> editForm.srm]
        ELSE taps[i]]

\* this step settled the fetch at position i of the given kind
Settles(kind, i) ==
    /\ i \in 1..Len(inFlight)
    /\ inFlight[i].kind = kind
    /\ inFlight[i].response.status # "pending"
    /\ Len(inFlight') = Len(inFlight) - 1
    /\ inFlight' = DropRequest(inFlight, i)

\* a rejected fetch or a non-OK status
Failed(r) == r.status \in {"rejected", "notok"}

\* C19: a save writes the edited list to the in-memory taps and to the local-storage
\* item in the very step that issues the remote request; with remote storage off no
\* request is made; a failed remote save leaves both untouched and raises the banner
C19_SaveStep ==
    /\ (editingTapId # 0 /\ editingTapId' = 0) =>
         /\ taps' = EditedTaps
         /\ localTaps' = Item(JSONStringify(EditedTaps))
         /\ IF storage.enabled /\ storage.url # ""
              THEN /\ Len(inFlight') = Len(inFlight) + 1
                   /\ inFlight'[Len(inFlight')].kind = "save"
                   /\ inFlight'[Len(inFlight')].response.status = "pending"
                   /\ localTaps'.text = inFlight'[Len(inFlight')].body
              ELSE inFlight' = inFlight /\ syncError' = syncError
    /\ Len(inFlight') > Len(inFlight) /\ inFlight'[Len(inFlight')].kind = "save" =>
         /\ localTaps' = Item(inFlight'[Len(inFlight')].body)
         /\ JSONStringify(taps') = inFlight'[Len(inFlight')].body
    /\ \A i \in 1..Len(inFlight) :
         Settles("save", i) /\ Failed(inFlight[i].response) =>
           /\ taps' = taps
           /\ localTaps' = localTaps
           /\ syncError' = SaveError
           /\ isSyncing' = FALSE

C19_SaveIsOptimistic == [][C19_SaveStep]_vars

\* tap 1 edited to SRM 12 with remote storage on, the push failed: the banner is up
\* and the edit is in memory and in local storage
C19_Witness ==
    /\ storage.enabled /\ storage.url # ""
    /\ syncError = SaveError
    /\ inFlight = <<>>
    /\ Len(taps) > 0 /\ taps[1].srm = Fin(120)
    /\ localTaps = Item(JSONStringify(taps))

\* what a failed load falls back to
LocalOrDefault ==
    IF localTaps.present THEN localTaps.text
    ELSE <<[id |-> 1, srm |-> Fin(30)], [id |-> 2, srm |-> Fin(30)],
           [id |-> 3, srm |-> Fin(30)], [id |-> 4, srm |-> Fin(30)]>>

C20_LoadStep ==
    /\ \A i \in 1..Len(inFlight) :
         Settles("load", i) =>
           /\ isSyncing' = FALSE
           /\ Failed(inFlight[i].response) =>
                syncError' = LoadError /\ taps' = LocalOrDefault
           /\ (inFlight[i].response.status = "ok" /\ inFlight[i].response.parses
                 /\ inFlight[i].response.taps # <<>>) =>
                taps' = inFlight[i].response.taps /\ syncError' = syncError
    /\ (tapRendered' # tapRendered /\ LoadDepsChanged
          /\ ~(storage.enabled /\ storage.url # "")) =>
         taps' = LocalOrDefault /\ isSyncing' = FALSE /\ inFlight' = inFlight

\* C20: a load whose GET failed or came back non-OK raises the banner and takes the
\* taps from local storage, or the 4 default taps when there are none; a non-empty
\* remote list is used; every load ends with isSyncing false, so isSyncing is false
\* whenever no fetch is outstanding
C20_LoadNeverFails ==
    /\ [][C20_LoadStep]_vars
    /\ [](inFlight = <<>> => isSyncing = FALSE)

\* remote storage on, nothing in local storage, the GET failed: banner up, 4 default
\* taps, not syncing
C20_Witness ==
    /\ storage.enabled /\ storage.url # ""
    /\ ~localTaps.present
    /\ syncError = LoadError
    /\ Len(taps) = 4 /\ taps[4] = [id |-> 4, srm |-> Fin(30)]
    /\ inFlight = <<>> /\ isSyncing = FALSE

\* ------------------------------------------------------------------------------
\* Claims about the greeting widget
\* ------------------------------------------------------------------------------

\* generateDailyVibe has settled
VibeSettled == vibePc \in {"returned", "done", "failed"}

\* C21: generateDailyVibe never rejects and resolves to a non-empty string (the
\* static fallbacks without a client, on a failed call and on an empty text), and
\* the widget eventually shows what it resolved to
C21_VibeNeverFails ==
    /\ [](VibeSettled =>
            /\ vibeResult.kind = "resolved" /\ vibeResult.value # ""
            /\ ~ai => vibeResult.value = "Welcome back, Commander. System is online."
            /\ (ai /\ vibeAnswer.kind = "throws") =>
                 vibeResult.value = "System status: Online. AI module offline."
            /\ (ai /\ vibeAnswer.kind = "returns"
                   /\ (~vibeAnswer.text.defined \/ vibeAnswer.text.s = "")) =>
                 vibeResult.value = "System Online.")
    /\ <>(vibePc = "done" /\ message = vibeResult.value /\ message # InitialMessage)

\* the AI call failed and the widget shows the offline fallback
C21_Witness ==
    /\ ai /\ vibeAnswer.kind = "throws"
    /\ vibePc = "done"
    /\ message = "System status: Online. AI module offline."

\* ------------------------------------------------------------------------------
\* Claims about the tap list's settings and its syncing
\* ------------------------------------------------------------------------------

\* C22: the next mount initialises the settings with the value the last session
\* wrote to 'taplist_settings'
C22_SettingsRestoredStep ==
    (tapRendered.mounted /\ ~tapRendered'.mounted) =>
      /\ savedSettings.present
      /\ savedSettings.value = settings
      /\ Settings(brewfather', storage') = savedSettings.value

C22_SettingsRestored == [][C22_SettingsRestoredStep]_vars

\* C23: a load that was started before a save was called (the save's request is
\* behind it in the order of issue) does not replace the tap list when it settles:
\* the in-memory list stays what the local-storage entry holds
C23_StaleLoadStep ==
    \A i \in 1..Len(inFlight) :
      (/\ Settles("load", i)
       /\ \E j \in (i + 1)..Len(inFlight) : inFlight[j].kind = "save") =>
        /\ taps' = taps
        /\ localTaps'.present
        /\ JSONStringify(taps') = localTaps'.text

C23_StaleLoadKeepsSavedTaps == [][C23_StaleLoadStep]_vars

\* a fetch that has not been answered yet
Outstanding == \E i \in 1..Len(inFlight) : inFlight[i].response.status = "pending"

\* C24: isSyncing is true while any GET or save request is unanswered, and the
\* indicator reads 'Synced' only when none is
C24_SyncingWhileOutstanding ==
    /\ Outstanding => isSyncing
    /\ SyncIndicator = "Synced" => ~Outstanding

\* ------------------------------------------------------------------------------
\* Claims about the BigCommerce colour script
\* ------------------------------------------------------------------------------

\* C25: within one run no create request is issued for a label the store already
\* holds (compared without case), and no two create requests are for the same label
C25_NoDuplicateCreates ==
    /\ \A i \in 1..Len(issued) : ToLowerCase(issued[i]) \notin existingLabels
    /\ \A i, j \in 1..Len(issued) :
         i # j => ToLowerCase(issued[i]) # ToLowerCase(issued[j])

\* the run in progress has come through every step: its last call was answered OK
\* and no colour is left to create
RunComplete ==
    /\ bcResponse.status = "ok"
    /\ \/ bcPc = "values" /\
          \A k \in 1..Len(colorsToCreate) :
            \E l \in bcResponse.labels : ToLowerCase(l) = ToLowerCase(colorsToCreate[k])
       \/ bcPc = "create" /\
          \A k \in (colorIdx + 1)..Len(colorsToCreate) :
            ToLowerCase(colorsToCreate[k]) \in existingLabels

\* the run in progress has hit a failed call or a store without a Colors option
RunFailed ==
    \/ bcResponse.status = "failed"
    \/ bcPc = "options" /\ bcResponse.status = "ok" /\ ~bcResponse.hasColors

C26_RunStep ==
    \* a run ends with isRunning false
    /\ (bcPc # "idle" /\ bcPc' = "idle") =>
         /\ isRunning' = FALSE
         /\ RunComplete \/ RunFailed
         /\ RunComplete => colorInput' = EmptyText
         /\ RunFailed => colorInput' = colorInput /\ issued' = issued
    \* a run that has hit a failure does nothing but end
    /\ (RunFailed /\ bcPc' # "idle") => UNCHANGED <<bcPc, issued>>
    \* the script clears the textarea only at the end of a complete run
    /\ (bcPc' = bcPc /\ bcResponse' # bcResponse) => colorInput' = colorInput
    /\ (bcPc # "idle" /\ colorInput' # colorInput /\ bcResponse' # bcResponse) =>
         RunComplete
    \* a create request is issued only by a run in progress whose last call succeeded
    /\ issued' # issued /\ issued' # <<>> =>
         /\ bcPc \in {"values", "create"} /\ bcResponse.status = "ok"
         /\ bcPc' = "create" /\ isRunning /\ isRunning'

\* C26: every run ends, and ends with isRunning false; after a failed call the run
\* issues no further create request and leaves colorInput as it is; the run clears
\* colorInput only when every step succeeded
C26_RunEndsCleanly ==
    /\ [][C26_RunStep]_vars
    /\ [](bcPc = "idle" => ~isRunning)
    /\ [](bcPc # "idle" => <>(bcPc = "idle" /\ ~isRunning))

\* a run whose second create call failed: one label POSTed after the first, the run
\* over, the textarea untouched
C26_Witness ==
    /\ bcPc = "idle" /\ ~isRunning
    /\ Len(colorsToCreate) = 2 /\ Len(issued) = 2
    /\ colorInput # EmptyText
    /\ TrimmedLines(colorInput) = colorsToCreate

--------------------------------------------------------------------------
(* Claims about the UTM link history *)

\* the part of the component's state a click on Copy may write
CopyState == [clipboard |-> clipboard, copied |-> copied,
              history |-> history, now |-> now]

\* C27: started from an empty history, after any copies and clears the history holds
\* at most 50 entries, newest first (timestamps fall from the head on), no two
\* neighbours have the same fullUrl, and a click on Copy while the generated URL is
\* empty changes nothing.
C27_HistoryShape ==
    /\ Len(history) <= 50
    /\ \A i \in 1..Len(history) - 1 :
          /\ history[i].timestamp >= history[i + 1].timestamp
          /\ history[i].fullUrl # history[i + 1].fullUrl
    /\ generatedUrl = "" => AfterCopy = CopyState

\* the list is full, an older entry has been dropped, and the URL field is empty again
C27_Witness ==
    /\ Len(history) = 50
    /\ now > 50
    /\ generatedUrl = "" /\ UtmSettled

--------------------------------------------------------------------------
(* Claims about the router *)

RegisteredPaths == {ROUTES[i].path : i \in 1..Len(ROUTES) - 1}

\* the hashes of the model whose path, query string and trailing slash stripped, is
\* a registered route, each with the page of that route
ExactHashes ==
    { << <<>>, "Home" >>,
      << <<"#", "/">>, "Home" >>,
      << <<"#", "/", "tools">>, "Tools" >>,
      << <<"#", "/", "tools", "/">>, "Tools" >>,
      << <<"#", "/", "tools", "?", "tab=1">>, "Tools" >>,
      << <<"#", "/", "tools", "/", "pizza", "/", "?", "x=1", "/">>, "PizzaCalculator" >> }

\* C28: a path that matches no registered route leads to path '/' through the
\* wildcard's Navigate; a hash whose path (query string and trailing slash
\* stripped) is a registered route renders that route, never the wildcard, whatever
\* the order of the routes.
C28_RouterSettles ==
    /\ [](path \in RegisteredPaths =>
            /\ Routes(routes, path).path = path
            /\ Routes(routes, path).element # "Navigate")
    /\ [](\A e \in ExactHashes :
            (hash = e[1] /\ ~hashchangePending) => Routes(routes, path).element = e[2])
    /\ [](path \notin RegisteredPaths => <>(path = <<"/">> /\ RouteSettled))

\* the wildcard, first among the routes, has been rendered for an unknown path and
\* its Navigate has set the hash
C28_Witness ==
    /\ routes[1].path = <<"*">>
    /\ path = <<"/", "tools", "/", "nope">>
    /\ routeRendered = RouteDeps
    /\ hash = <<"#", "/">> /\ hashchangePending

--------------------------------------------------------------------------
(* Claims about FleetLog *)

\* a step of handleAddLog: the list of logs has grown
LogAdded == Len(logs') = Len(logs) + 1

\* C29: once a log whose description matches a usage rule has been added with a
\* usageAtTime at or above the rule's due usage, calculateStatus no longer reports
\* the rule overdue while the asset's current usage is the logged value, for
\* interval rules and one-time rules alike.
C29_LogStep ==
    LogAdded =>
        \A ri \in 1..Len(rules), k \in 1..Len(assets) :
            LET rule == rules[ri]
                log == logs'[1]
                due == calculateStatus(assets[k], rule, logs, today).dueUsage
            IN  (/\ rule.type = "usage"
                 /\ rule.assetId = assets[k].id /\ log.assetId = assets[k].id
                 /\ DescriptionIncludes(log.description, rule.name)
                 /\ due.defined /\ log.usageAtTime.defined
                 /\ log.usageAtTime.value >= due.value
                 /\ assets'[k].currentUsage = log.usageAtTime.value)
                => ~calculateStatus(assets'[k], rule, logs', today').overdue
C29_LoggedServiceClearsOverdue == [][C29_LogStep]_vars

\* C30: handleAddLog puts exactly one log in front of the others, which stay as they
\* are; it changes no asset but the logged one, and that one only by raising its
\* currentUsage to a usageAtTime strictly greater than it was.
C30_AddLogStep ==
    LogAdded =>
        /\ Tail(logs') = logs
        /\ Len(assets') = Len(assets)
        /\ \A i \in 1..Len(assets) :
              /\ assets'[i].currentUsage >= assets[i].currentUsage
              /\ assets'[i] # assets[i] =>
                    /\ assets[i].id = logs'[1].assetId
                    /\ logs'[1].usageAtTime.defined
                    /\ logs'[1].usageAtTime.value > assets[i].currentUsage
                    /\ assets'[i] = [assets[i] EXCEPT
                                        !.currentUsage = logs'[1].usageAtTime.value]
====
